---- MODULE Spec2Model ----
(***************************************************************************)
(* A state-machine model of the HPX parcel transport                       *)
(* (src/src/runtime/parcelset/parcelport.cpp).  Worker threads execute     *)
(* send_parcel and send_pending_parcels statement by statement, so that    *)
(* every interleaving at the granularity of the connection-cache calls and *)
(* of the mtx_ critical sections is explored.  Callbacks run by the        *)
(* io_service pool (write completion) and the lifecycle calls run/stop are *)
(* single actions.                                                         *)
(***************************************************************************)
EXTENDS Integers, Sequences, FiniteSets, TLC

\* ------------------------------------------------------------------ bounds
NumThreads == 2          \* worker threads running send_parcel / drains
NumPrefixes == 2         \* destination localities
MaxParcels == 2          \* send_parcel calls in one behaviour
MaxEndpoints == 2        \* endpoints a locality resolves to (addr.locality_)
HPX_MAX_NETWORK_RETRIES == 2   \* sweeps of the connect loop (100 in hpx/config)
max_cache_size == 1            \* constructor argument of the connection cache
max_connections_per_loc == 1   \* constructor argument of the connection cache
NumCoros == 2            \* coroutine_impl objects
MaxBinds == 3            \* work items bound (and rebound) in one behaviour
NumFns == 2              \* callable containers
NumVals == 2             \* distinguishable payload values of one type
MaxIncoming == 3         \* accept completions in one behaviour

Threads == 1..NumThreads
Prefixes == 1..NumPrefixes
ConnIds == 1..MaxParcels        \* a send_parcel call creates at most one
Endpoints == 1..MaxEndpoints
Coros == 1..NumCoros
Fns == 1..NumFns
Vals == 1..NumVals
Incoming == 1..MaxIncoming
\* what a write completes with: (error_code, bytes_written); e = 0 is success
WriteOutcomes == {[e |-> 0, bytes |-> 8], [e |-> 1, bytes |-> 0]}

VARIABLES
    pc,                \* pc[t]: the statement thread t executes next
    th,                \* th[t]: the locals of the call thread t is running
    mtx_,              \* util::spinlock mtx_: 0 = free, else the holding thread
    pending_parcels_,  \* prefix -> [first: parcels, second: handlers]
    connection_cache_, \* the idle connections, least recently returned first
    conns,             \* every parcelport_connection created so far
    written,           \* the async_write operations issued, in issue order
    invoked,           \* the write handlers invoked, in invocation order
    scheduled,         \* prefix -> send_pending_parcels threads registered, not yet run
    nsent,             \* number of send_parcel calls made so far
    thrown,            \* ids of the parcels whose send_parcel raised network_error
    early,             \* parcels whose send_parcel began before any connection
                       \* to their destination had been created
    enqueued,          \* ids of the parcels pushed on a pending queue, in push order
    io_service_pool_,  \* the executor pool: created, running, stopped, cleared
    acceptor_,         \* NULL, or the acceptor's socket state: closed, open, listening
    accepts,           \* async_accept operations outstanding on the acceptor
    last               \* what the most recent run or stop call did

outbound == <<pc, th, mtx_, pending_parcels_, connection_cache_, conns, written,
              invoked, scheduled, nsent, thrown, early, enqueued>>
lifecycle == <<io_service_pool_, acceptor_, accepts, last>>

\* The cooperative execution context (src/unnamed/part_001, coroutine_impl):
\* coroutines run on one OS thread, whose thread-local marker they share.
VARIABLES
    current_self,      \* coroutine_self::get_self(): 0 = nullptr, else the
                       \* coroutine whose coroutine_self object is installed
    m_state,           \* m_state[c]: ctx_ready, ctx_running, ctx_exited
    m_fun,             \* m_fun[c]: the bound work item, NoFun when reset
    m_result,          \* m_result[c]: what bind_result stored for the resumer
    cpc,               \* cpc[c]: where operator() of c stands
    cl,                \* cl[c]: the locals of operator() of c
    ctl,               \* the coroutines control has been switched into, innermost last
    delivered,         \* what do_return handed to resumers, in order
    ran,               \* the work items started, in order
    invocations,       \* invocations[c]: times operator() of c was entered
    nbinds             \* work items bound so far

coroutines == <<current_self, m_state, m_fun, m_result, cpc, cl, ctl, delivered,
                ran, invocations, nbinds>>

\* The type-erased callable container (src/hpx/runtime/threads/thread_helpers.hpp,
\* function_base and basic_function<Sig, Copyable, true>).
VARIABLES
    fb,                \* fb[f]: container f: alive, vptr, object, storage,
                       \* serializable_vptr
    heap,              \* the payload cells allocated outside the containers
    ar,                \* the archive the last save wrote
    flast              \* what the most recent container operation did

functions == <<fb, heap, ar, flast>>

\* The inbound path of the transport: the connections the acceptor has handed
\* to handle_accept.
VARIABLES
    incoming,          \* incoming[c]: server connection c: st, and the error
                       \* code e its accept or its read completed with
    parcels_received_, \* the receive data points pushed, in order
    logged             \* the LPT_(error) lines written, in order

inbound == <<incoming, parcels_received_, logged>>
elsewhere == <<coroutines, functions, inbound>>
vars == <<outbound, lifecycle, elsewhere>>

\* ----------------------------------------------------------------- helpers
NoLocals ==
    [op |-> "none", prefix |-> 0, p |-> 0, n |-> 0, conn |-> 0, i |-> 0,
     it |-> 0, error |-> FALSE, parcels |-> <<>>, handlers |-> <<>>,
     log |-> <<>>, q0 |-> <<>>, intf |-> FALSE, created |-> FALSE]

Parcel(k, d) == [id |-> k, dest |-> d]

\* naming::get_prefix_from_gid(p.get_destination())
get_prefix_from_gid(p) == p.dest

Remove(s, x) == SelectSeq(s, LAMBDA y : y # x)

Alive(c) == conns[c].st \in {"new", "connected"}

\* another thread changed a pending queue: every other running call notes it
Interfere(locals, t) ==
    [u \in Threads |->
        IF u # t /\ locals[u].op # "none"
        THEN [locals[u] EXCEPT !.intf = TRUE] ELSE locals[u]]

\* -------------------------------------------------------- connection cache
IdleOf(cache, d) == SelectSeq(cache, LAMBDA c : conns[c].dest = d)

\* connection_cache_.get(prefix): the connection handed out (0: none) ...
cache_get(d) ==
    IF IdleOf(connection_cache_, d) = <<>> THEN 0
    ELSE Head(IdleOf(connection_cache_, d))

\* ... and the cache after it was popped
cache_after_get(d) ==
    IF cache_get(d) = 0 THEN connection_cache_
    ELSE Remove(connection_cache_, cache_get(d))

\* connection_cache_.full(prefix)
cache_full(d) ==
    /\ Cardinality({c \in ConnIds : conns[c].dest = d /\ Alive(c)})
          >= max_connections_per_loc
    /\ IdleOf(connection_cache_, d) = <<>>

\* the idle connection evicted to make room for one of destination d (0: none)
cache_victim(d) ==
    LET others == SelectSeq(connection_cache_, LAMBDA c : conns[c].dest # d)
    IN  IF Len(connection_cache_) >= max_cache_size /\ others # <<>>
        THEN Head(others) ELSE 0

\* connection_cache_.add(prefix, conn): is conn kept as idle?
cache_add_keeps(d, c) ==
    /\ Len(IdleOf(connection_cache_, d)) < max_connections_per_loc
    /\ \/ Len(connection_cache_) < max_cache_size
       \/ cache_victim(d) # 0

\* connection_cache_.add(prefix, conn): the cache afterwards
cache_after_add(d, c) ==
    IF ~cache_add_keeps(d, c) THEN connection_cache_
    ELSE IF cache_victim(d) # 0
         THEN Append(Remove(connection_cache_, cache_victim(d)), c)
         ELSE Append(connection_cache_, c)

\* connection_cache_.add(prefix, conn): the connections afterwards
conns_after_add(d, c) ==
    IF ~cache_add_keeps(d, c) THEN [conns EXCEPT ![c].st = "closed"]
    ELSE IF cache_victim(d) # 0
         THEN [conns EXCEPT ![cache_victim(d)].st = "closed"]
         ELSE conns

\* no work item bound
NoFun == [id |-> 0, throws |-> FALSE]

\* lines 75-79: the locals operator() starts with; tinfo 0 is the empty
\* exception_ptr, result_last is (terminated, invalid_thread_id)
NoCoLocals ==
    [status |-> "ctx_exited_return", result_last |-> <<"terminated", 0>>,
     tinfo |-> 0, old_self |-> 0, self_next |-> 0, on_exit |-> 0, item |-> NoFun]

InitCoroutine ==
    /\ current_self = 0
    /\ m_state = [c \in Coros |-> "ctx_exited"]
    /\ m_fun = [c \in Coros |-> NoFun]
    /\ m_result = [c \in Coros |-> <<"unknown", 0>>]
    /\ cpc = [c \in Coros |-> "none"]
    /\ cl = [c \in Coros |-> NoCoLocals]
    /\ ctl = <<>>
    /\ delivered = <<>>
    /\ ran = <<>>
    /\ invocations = [c \in Coros |-> 0]
    /\ nbinds = 0

\* detail::get_empty_function_vtable<vtable>(): the table of the empty state
EmptyVtable == "empty_function"

\* the payload types: T1 fits the container's inline buffer
\* (function_storage_size, line 113), T2 does not
Types == {"T1", "T2"}
Inline(T) == T = "T1"

\* object pointers: nullptr, the inline buffer of a container, or a cell of
\* the heap
nullptr == [at |-> "null", of |-> 0]
Storage(f) == [at |-> "storage", of |-> f]
Heap(a) == [at |-> "heap", of |-> a]
Addrs == 1..(NumFns + 1)

\* what a buffer or a heap cell holds when it holds no live payload: Raw is
\* allocated memory without an object, Free is a cell not allocated
Raw == [type |-> "raw", val |-> 0]
Free == [type |-> "free", val |-> 0]

\* lines 160-164: function_base(), and basic_function() of lines 404-407
EmptyFunction ==
    [alive |-> TRUE, vptr |-> EmptyVtable, object |-> nullptr, storage |-> Raw,
     serializable_vptr |-> "nullptr"]

InitFunction ==
    /\ fb = [f \in Fns |-> EmptyFunction]
    /\ heap = [a \in Addrs |-> Free]
    /\ ar = [rec |-> <<TRUE>>,
             from |-> [empty |-> TRUE, vptr |-> EmptyVtable, payload |-> Free]]
    /\ flast = [op |-> "none"]

\* no connection has been accepted
InitInbound ==
    /\ incoming = [c \in Incoming |-> [st |-> "none", e |-> "none"]]
    /\ parcels_received_ = <<>>
    /\ logged = <<>>

\* -------------------------------------------------------------------- Init
Init ==
    /\ InitCoroutine
    /\ InitFunction
    /\ InitInbound
    /\ pc = [t \in Threads |-> "idle"]
    /\ th = [t \in Threads |-> NoLocals]
    /\ mtx_ = 0
    /\ pending_parcels_ = [d \in Prefixes |-> [first |-> <<>>, second |-> <<>>]]
    /\ connection_cache_ = <<>>
    /\ conns = [c \in ConnIds |-> [dest |-> 0, st |-> "none"]]
    /\ written = <<>>
    /\ invoked = <<>>
    /\ scheduled = [d \in Prefixes |-> 0]
    /\ nsent = 0
    /\ thrown = {}
    /\ early = {}
    /\ enqueued = <<>>
    /\ io_service_pool_ = "created"
    /\ acceptor_ = "NULL"
    /\ accepts = 0
    /\ last = [op |-> "none"]

\* the workers are interchangeable: a call starts on the first idle one
LowestIdle(t) == \A u \in Threads : u < t => pc[u] # "idle"

\* ------------------------------------------------------------- send_parcel
\* line 187 preceded by the enqueue of lines 191-193
send_parcel_get_enqueues_first(t) ==
    /\ pc[t] = "idle"
    /\ LowestIdle(t)
    /\ nsent < MaxParcels
    /\ mtx_ = 0
    /\ \E d \in Prefixes :
        /\ th' = [th EXCEPT ![t] =
                    [NoLocals EXCEPT !.op = "send",
                                     !.prefix = get_prefix_from_gid(Parcel(nsent + 1, d)),
                                     !.p = nsent + 1,
                                     !.conn = cache_get(d)]]
        /\ connection_cache_' = cache_after_get(d)
        /\ early' = IF \A c \in ConnIds : conns[c].dest # d
                    THEN early \cup {Parcel(nsent + 1, d)} ELSE early
    /\ enqueued' = Append(enqueued, nsent + 1)
    /\ nsent' = nsent + 1
    /\ pc' = [pc EXCEPT ![t] = "sp_lock"]
    /\ UNCHANGED <<mtx_, pending_parcels_, conns, written, invoked, scheduled,
                   thrown>>
    /\ UNCHANGED <<lifecycle, elsewhere>>

\* line 187: a caller enters send_parcel(p, addr, f) with a fresh parcel for
\* destination d and asks the cache for an idle connection.
send_parcel_get(t) ==
    /\ pc[t] = "idle"
    /\ LowestIdle(t)
    /\ nsent < MaxParcels
    /\ \E d \in Prefixes :
        /\ th' = [th EXCEPT ![t] =
                    [NoLocals EXCEPT !.op = "send",
                                     !.prefix = get_prefix_from_gid(Parcel(nsent + 1, d)),
                                     !.p = nsent + 1,
                                     !.conn = cache_get(d)]]
        /\ connection_cache_' = cache_after_get(d)
        /\ early' = IF \A c \in ConnIds : conns[c].dest # d
                    THEN early \cup {Parcel(nsent + 1, d)} ELSE early
    /\ nsent' = nsent + 1
    /\ pc' = [pc EXCEPT ![t] = "sp_lock"]
    /\ UNCHANGED <<mtx_, pending_parcels_, conns, written, invoked, scheduled,
                   thrown, enqueued>>
    /\ UNCHANGED <<lifecycle, elsewhere>>

\* lines 191-192: take mtx_, push the parcel
send_parcel_push_first(t) ==
    /\ pc[t] = "sp_lock"
    /\ mtx_ = 0
    /\ mtx_' = t
    /\ pending_parcels_' =
          [pending_parcels_ EXCEPT ![th[t].prefix].first =
              Append(@, Parcel(th[t].p, th[t].prefix))]
    /\ th' = Interfere(th, t)
    /\ enqueued' = Append(enqueued, th[t].p)
    /\ pc' = [pc EXCEPT ![t] = "sp_push2"]
    /\ UNCHANGED <<connection_cache_, conns, written, invoked, scheduled,
                   nsent, thrown, early>>
    /\ UNCHANGED <<lifecycle, elsewhere>>

\* lines 193-194 with the push of the handler forgotten
send_parcel_push_second_forgets(t) ==
    /\ pc[t] = "sp_push2"
    /\ mtx_ = t
    /\ mtx_' = 0
    /\ th' = [th EXCEPT ![t].q0 = pending_parcels_, ![t].intf = FALSE]
    /\ pc' = [pc EXCEPT ![t] = "sp_full"]
    /\ UNCHANGED <<pending_parcels_, connection_cache_, conns, written, invoked,
                   scheduled, nsent, thrown, early, enqueued>>
    /\ UNCHANGED <<lifecycle, elsewhere>>

\* lines 193-194: push the handler, leave the critical section
send_parcel_push_second(t) ==
    /\ pc[t] = "sp_push2"
    /\ mtx_ = t
    /\ mtx_' = 0
    /\ pending_parcels_' =
          [pending_parcels_ EXCEPT ![th[t].prefix].second = Append(@, th[t].p)]
    /\ th' = [th EXCEPT ![t].q0 = pending_parcels_', ![t].intf = FALSE]
    /\ pc' = [pc EXCEPT ![t] = "sp_full"]
    /\ UNCHANGED <<connection_cache_, conns, written, invoked, scheduled,
                   nsent, thrown, early, enqueued>>
    /\ UNCHANGED <<lifecycle, elsewhere>>

\* lines 208-216 without the full() test of line 213
send_parcel_full_ignores_full(t) ==
    /\ pc[t] = "sp_full"
    /\ pc' = [pc EXCEPT ![t] = IF th[t].conn # 0 THEN "sp_swap1" ELSE "sp_new"]
    /\ UNCHANGED <<th, mtx_, pending_parcels_, connection_cache_, conns,
                   written, invoked, scheduled, nsent, thrown, early, enqueued>>
    /\ UNCHANGED <<lifecycle, elsewhere>>

\* lines 208-216: with a cached connection go on to the drain; without one
\* return if the cache reports full, else go on to create a connection
send_parcel_full(t) ==
    /\ pc[t] = "sp_full"
    /\ pc' = [pc EXCEPT ![t] =
                IF th[t].conn # 0 THEN "sp_swap1"
                ELSE IF cache_full(th[t].prefix) THEN "sp_done"
                ELSE "sp_new"]
    /\ UNCHANGED <<th, mtx_, pending_parcels_, connection_cache_, conns,
                   written, invoked, scheduled, nsent, thrown, early, enqueued>>
    /\ UNCHANGED <<lifecycle, elsewhere>>

FreshConn == CHOOSE c \in ConnIds : conns[c].st = "none" /\
                 \A b \in ConnIds : conns[b].st = "none" => c <= b

\* lines 220-225: client_connection.reset(new parcelport_connection(...));
\* error = try_again.  addr.locality_, first read by the loop that follows,
\* resolves to the endpoints 1..n.
send_parcel_new(t) ==
    /\ pc[t] = "sp_new"
    /\ conns' = [conns EXCEPT ![FreshConn] = [dest |-> th[t].prefix, st |-> "new"]]
    /\ \E n \in 0..MaxEndpoints :
          th' = [th EXCEPT ![t].conn = FreshConn, ![t].error = TRUE,
                           ![t].n = n, ![t].i = 0, ![t].it = 1,
                           ![t].created = TRUE]
    /\ pc' = [pc EXCEPT ![t] = "sp_connect"]
    /\ UNCHANGED <<mtx_, pending_parcels_, connection_cache_, written, invoked,
                   scheduled, nsent, thrown, early, enqueued>>
    /\ UNCHANGED <<lifecycle, elsewhere>>

\* lines 226-268 with the pairs queued for the destination discarded when
\* the last sweep has failed
send_parcel_connect_drops_queue(t) ==
    /\ pc[t] = "sp_connect"
    /\ LET l == th[t] IN
           IF l.it <= l.n
           THEN \E ok \in BOOLEAN :
                /\ th' = [th EXCEPT ![t].error = ~ok,
                             ![t].it = IF ok THEN @ ELSE @ + 1,
                             ![t].log = Append(@, [sweep |-> l.i, ep |-> l.it, ok |-> ok])]
                /\ conns' = [conns EXCEPT ![l.conn].st =
                                 IF ok THEN "connected" ELSE "new"]
                /\ pc' = [pc EXCEPT ![t] = IF ok THEN "sp_swap1" ELSE "sp_connect"]
                /\ UNCHANGED <<thrown, pending_parcels_>>
           ELSE IF ~l.error
           THEN /\ pc' = [pc EXCEPT ![t] = "sp_swap1"]
                /\ UNCHANGED <<th, conns, thrown, pending_parcels_>>
           ELSE IF l.i + 1 < HPX_MAX_NETWORK_RETRIES
           THEN /\ th' = [th EXCEPT ![t].i = @ + 1, ![t].it = 1]
                /\ UNCHANGED <<pc, conns, thrown, pending_parcels_>>
           ELSE /\ th' = [th EXCEPT ![t].i = @ + 1]
                /\ conns' = [conns EXCEPT ![l.conn].st = "failed"]
                /\ thrown' = thrown \cup {l.p}
                /\ pending_parcels_' = [pending_parcels_ EXCEPT ![l.prefix] =
                                            [first |-> <<>>, second |-> <<>>]]
                /\ pc' = [pc EXCEPT ![t] = "sp_thrown"]
    /\ UNCHANGED <<mtx_, connection_cache_, written, invoked,
                   scheduled, nsent, early, enqueued>>
    /\ UNCHANGED <<lifecycle, elsewhere>>

\* lines 226-268 without the break of line 240: the sweep goes on to the
\* next endpoint after a connect that succeeded
send_parcel_connect_no_break(t) ==
    /\ pc[t] = "sp_connect"
    /\ LET l == th[t] IN
           IF l.it <= l.n
           THEN \E ok \in BOOLEAN :
                /\ th' = [th EXCEPT ![t].error = ~ok, ![t].it = @ + 1,
                             ![t].log = Append(@, [sweep |-> l.i, ep |-> l.it, ok |-> ok])]
                /\ conns' = [conns EXCEPT ![l.conn].st =
                                 IF ok THEN "connected" ELSE "new"]
                /\ UNCHANGED <<pc, thrown>>
           ELSE IF ~l.error
           THEN /\ pc' = [pc EXCEPT ![t] = "sp_swap1"]
                /\ UNCHANGED <<th, conns, thrown>>
           ELSE IF l.i + 1 < HPX_MAX_NETWORK_RETRIES
           THEN /\ th' = [th EXCEPT ![t].i = @ + 1, ![t].it = 1]
                /\ UNCHANGED <<pc, conns, thrown>>
           ELSE /\ th' = [th EXCEPT ![t].i = @ + 1]
                /\ conns' = [conns EXCEPT ![l.conn].st = "failed"]
                /\ thrown' = thrown \cup {l.p}
                /\ pc' = [pc EXCEPT ![t] = "sp_thrown"]
    /\ UNCHANGED <<mtx_, pending_parcels_, connection_cache_, written, invoked,
                   scheduled, nsent, early, enqueued>>
    /\ UNCHANGED <<lifecycle, elsewhere>>

\* lines 226-268: one step of the connect loop.  Either the next endpoint of
\* the running sweep is tried (close, connect; the network decides whether
\* the connect succeeds), or the sweep is over: the
\* thread sleeps, and after the last sweep closes the socket and raises
\* network_error.  (The catch of line 250 handles a thrown
\* boost::system::error_code; connect() with an error argument throws none.)
send_parcel_connect(t) ==
    /\ pc[t] = "sp_connect"
    /\ LET l == th[t] IN
           IF l.it <= l.n
           THEN \E ok \in BOOLEAN :
                /\ th' = [th EXCEPT ![t].error = ~ok,
                             ![t].it = IF ok THEN @ ELSE @ + 1,
                             ![t].log = Append(@, [sweep |-> l.i, ep |-> l.it, ok |-> ok])]
                /\ conns' = [conns EXCEPT ![l.conn].st =
                                 IF ok THEN "connected" ELSE "new"]
                /\ pc' = [pc EXCEPT ![t] = IF ok THEN "sp_swap1" ELSE "sp_connect"]
                /\ UNCHANGED thrown
           ELSE IF ~l.error
           THEN /\ pc' = [pc EXCEPT ![t] = "sp_swap1"]
                /\ UNCHANGED <<th, conns, thrown>>
           ELSE IF l.i + 1 < HPX_MAX_NETWORK_RETRIES
           THEN /\ th' = [th EXCEPT ![t].i = @ + 1, ![t].it = 1]
                /\ UNCHANGED <<pc, conns, thrown>>
           ELSE /\ th' = [th EXCEPT ![t].i = @ + 1]
                /\ conns' = [conns EXCEPT ![l.conn].st = "failed"]
                /\ thrown' = thrown \cup {l.p}
                /\ pc' = [pc EXCEPT ![t] = "sp_thrown"]
    /\ UNCHANGED <<mtx_, pending_parcels_, connection_cache_, written, invoked,
                   scheduled, nsent, early, enqueued>>
    /\ UNCHANGED <<lifecycle, elsewhere>>

\* lines 277-278: take mtx_, swap the queued parcels into the local vector
\* (the locals of the connect phase are dead from here on)
send_parcel_swap_first(t) ==
    /\ pc[t] = "sp_swap1"
    /\ mtx_ = 0
    /\ mtx_' = t
    /\ pending_parcels_' =
          [pending_parcels_ EXCEPT ![th[t].prefix].first = th[t].parcels]
    /\ th' = [Interfere(th, t) EXCEPT
                 ![t].parcels = pending_parcels_[th[t].prefix].first,
                 ![t].n = 0, ![t].i = 0, ![t].it = 0, ![t].error = FALSE,
                 ![t].log = <<>>]
    /\ pc' = [pc EXCEPT ![t] = "sp_swap2"]
    /\ UNCHANGED <<connection_cache_, conns, written, invoked, scheduled,
                   nsent, thrown, early, enqueued>>
    /\ UNCHANGED <<lifecycle, elsewhere>>

\* lines 279-288 with the write started before the critical section is left
send_parcel_swap_second_writes_locked(t) ==
    /\ pc[t] = "sp_swap2"
    /\ mtx_ = t
    /\ mtx_' = 0
    /\ pending_parcels_' =
          [pending_parcels_ EXCEPT ![th[t].prefix].second = th[t].handlers]
    /\ th' = [th EXCEPT ![t].handlers = pending_parcels_[th[t].prefix].second]
    /\ IF th[t].parcels # <<>> /\ pending_parcels_[th[t].prefix].second # <<>>
       THEN /\ written' = Append(written,
                               [conn |-> th[t].conn, dest |-> th[t].prefix,
                                parcels |-> th[t].parcels,
                                handlers |-> pending_parcels_[th[t].prefix].second,
                                done |-> FALSE, e |-> 0, bytes |-> 0])
            /\ pc' = [pc EXCEPT ![t] = "sp_done"]
       ELSE /\ pc' = [pc EXCEPT ![t] = "sp_write"]
            /\ UNCHANGED written
    /\ UNCHANGED <<connection_cache_, conns, invoked, scheduled,
                   nsent, thrown, early, enqueued>>
    /\ UNCHANGED <<lifecycle, elsewhere>>

\* lines 279-280: swap the queued handlers, leave the critical section
send_parcel_swap_second(t) ==
    /\ pc[t] = "sp_swap2"
    /\ mtx_ = t
    /\ mtx_' = 0
    /\ pending_parcels_' =
          [pending_parcels_ EXCEPT ![th[t].prefix].second = th[t].handlers]
    /\ th' = [th EXCEPT ![t].handlers = pending_parcels_[th[t].prefix].second]
    /\ pc' = [pc EXCEPT ![t] = "sp_write"]
    /\ UNCHANGED <<connection_cache_, conns, written, invoked, scheduled,
                   nsent, thrown, early, enqueued>>
    /\ UNCHANGED <<lifecycle, elsewhere>>

\* set_parcel + async_write(call_for_each(handlers), trampoline)
async_write(c, d, parcels, handlers) ==
    Append(written, [conn |-> c, dest |-> d, parcels |-> parcels,
                     handlers |-> handlers, done |-> FALSE, e |-> 0, bytes |-> 0])

\* lines 283-300 with only the call's own pair handed to the connection
send_parcel_write_own_only(t) ==
    /\ pc[t] = "sp_write"
    /\ LET l == th[t] IN
       IF l.parcels # <<>> /\ l.handlers # <<>>
       THEN /\ written' = async_write(l.conn, l.prefix,
                                      <<Parcel(l.p, l.prefix)>>, <<l.p>>)
            /\ UNCHANGED <<connection_cache_, conns>>
       ELSE /\ connection_cache_' = cache_after_add(l.prefix, l.conn)
            /\ conns' = conns_after_add(l.prefix, l.conn)
            /\ UNCHANGED written
    /\ pc' = [pc EXCEPT ![t] = "sp_done"]
    /\ UNCHANGED <<th, mtx_, pending_parcels_, invoked, scheduled, nsent,
                   thrown, early, enqueued>>
    /\ UNCHANGED <<lifecycle, elsewhere>>

\* lines 283-300 with the connection of an empty drain kept by the caller
send_parcel_write_keeps_connection(t) ==
    /\ pc[t] = "sp_write"
    /\ LET l == th[t] IN
       IF l.parcels # <<>> /\ l.handlers # <<>>
       THEN written' = async_write(l.conn, l.prefix, l.parcels, l.handlers)
       ELSE UNCHANGED written
    /\ pc' = [pc EXCEPT ![t] = "sp_done"]
    /\ UNCHANGED <<th, mtx_, pending_parcels_, invoked, scheduled, nsent,
                   thrown, early, enqueued, connection_cache_, conns>>
    /\ UNCHANGED <<lifecycle, elsewhere>>

\* lines 283-300: write what was drained, or give the connection back
send_parcel_write(t) ==
    /\ pc[t] = "sp_write"
    /\ LET l == th[t] IN
       IF l.parcels # <<>> /\ l.handlers # <<>>
       THEN /\ written' = async_write(l.conn, l.prefix, l.parcels, l.handlers)
            /\ UNCHANGED <<connection_cache_, conns>>
       ELSE /\ connection_cache_' = cache_after_add(l.prefix, l.conn)
            /\ conns' = conns_after_add(l.prefix, l.conn)
            /\ UNCHANGED written
    /\ pc' = [pc EXCEPT ![t] = "sp_done"]
    /\ UNCHANGED <<th, mtx_, pending_parcels_, invoked, scheduled, nsent,
                   thrown, early, enqueued>>
    /\ UNCHANGED <<lifecycle, elsewhere>>

\* the call returns (or its exception has propagated): the locals die
Return(t) ==
    /\ pc[t] \in {"sp_done", "sp_thrown", "dp_done"}
    /\ pc' = [pc EXCEPT ![t] = "idle"]
    /\ th' = [th EXCEPT ![t] = NoLocals]
    /\ UNCHANGED <<mtx_, pending_parcels_, connection_cache_, conns, written,
                   invoked, scheduled, nsent, thrown, early, enqueued>>
    /\ UNCHANGED <<lifecycle, elsewhere>>

\* ---------------------------------------------------- send_pending_parcels
\* lines 303-310 registering two threads
send_pending_parcels_trampoline_twice(d) == [scheduled EXCEPT ![d] = @ + 2]

\* lines 303-310: register an HPX thread that runs send_pending_parcels(prefix)
send_pending_parcels_trampoline(d) == [scheduled EXCEPT ![d] = @ + 1]

\* lines 312-320: a registered drain starts on worker t and asks the cache
\* for an idle connection; without one it returns at once (line 319)
send_pending_parcels_get(t) ==
    /\ pc[t] = "idle"
    /\ LowestIdle(t)
    /\ \E d \in Prefixes :
        /\ scheduled[d] > 0
        /\ scheduled' = [scheduled EXCEPT ![d] = @ - 1]
        /\ th' = [th EXCEPT ![t] =
                    [NoLocals EXCEPT !.op = "drain", !.prefix = d,
                                     !.conn = cache_get(d),
                                     !.q0 = pending_parcels_]]
        /\ connection_cache_' = cache_after_get(d)
        /\ pc' = [pc EXCEPT ![t] =
                    IF cache_get(d) = 0 THEN "dp_done" ELSE "dp_swap1"]
    /\ UNCHANGED <<mtx_, pending_parcels_, conns, written, invoked, nsent,
                   thrown, early, enqueued>>
    /\ UNCHANGED <<lifecycle, elsewhere>>

\* lines 323-328 with the queued parcels copied, not swapped out
send_pending_parcels_copy_first(t) ==
    /\ pc[t] = "dp_swap1"
    /\ mtx_ = 0
    /\ mtx_' = t
    /\ th' = [Interfere(th, t) EXCEPT
                 ![t].parcels = pending_parcels_[th[t].prefix].first]
    /\ pc' = [pc EXCEPT ![t] = "dp_swap2"]
    /\ UNCHANGED <<connection_cache_, conns, written, invoked, scheduled,
                   nsent, thrown, early, enqueued, pending_parcels_>>
    /\ UNCHANGED <<lifecycle, elsewhere>>

\* lines 323-328: take mtx_, find the entry, swap the queued parcels out
send_pending_parcels_swap_first(t) ==
    /\ pc[t] = "dp_swap1"
    /\ mtx_ = 0
    /\ mtx_' = t
    /\ pending_parcels_' =
          [pending_parcels_ EXCEPT ![th[t].prefix].first = th[t].parcels]
    /\ th' = [Interfere(th, t) EXCEPT
                 ![t].parcels = pending_parcels_[th[t].prefix].first]
    /\ pc' = [pc EXCEPT ![t] = "dp_swap2"]
    /\ UNCHANGED <<connection_cache_, conns, written, invoked, scheduled,
                   nsent, thrown, early, enqueued>>
    /\ UNCHANGED <<lifecycle, elsewhere>>

\* lines 329-331: swap the queued handlers out, leave the critical section
send_pending_parcels_swap_second(t) ==
    /\ pc[t] = "dp_swap2"
    /\ mtx_ = t
    /\ mtx_' = 0
    /\ pending_parcels_' =
          [pending_parcels_ EXCEPT ![th[t].prefix].second = th[t].handlers]
    /\ th' = [th EXCEPT ![t].handlers = pending_parcels_[th[t].prefix].second]
    /\ pc' = [pc EXCEPT ![t] = "dp_write"]
    /\ UNCHANGED <<connection_cache_, conns, written, invoked, scheduled,
                   nsent, thrown, early, enqueued>>
    /\ UNCHANGED <<lifecycle, elsewhere>>

\* lines 333-348 with the connection given back to the cache on both paths
send_pending_parcels_write_always_adds(t) ==
    /\ pc[t] = "dp_write"
    /\ LET l == th[t] IN
       /\ written' = IF l.parcels # <<>> /\ l.handlers # <<>>
                     THEN async_write(l.conn, l.prefix, l.parcels, l.handlers)
                     ELSE written
       /\ connection_cache_' = cache_after_add(l.prefix, l.conn)
       /\ conns' = conns_after_add(l.prefix, l.conn)
    /\ pc' = [pc EXCEPT ![t] = "idle"]
    /\ th' = [th EXCEPT ![t] = NoLocals]
    /\ UNCHANGED <<mtx_, pending_parcels_, invoked, scheduled, nsent, thrown, early, enqueued>>
    /\ UNCHANGED <<lifecycle, elsewhere>>

\* lines 333-348: write what was drained, or give the connection back;
\* the drain returns
send_pending_parcels_write(t) ==
    /\ pc[t] = "dp_write"
    /\ LET l == th[t] IN
       IF l.parcels # <<>> /\ l.handlers # <<>>
       THEN /\ written' = async_write(l.conn, l.prefix, l.parcels, l.handlers)
            /\ UNCHANGED <<connection_cache_, conns>>
       ELSE /\ connection_cache_' = cache_after_add(l.prefix, l.conn)
            /\ conns' = conns_after_add(l.prefix, l.conn)
            /\ UNCHANGED written
    /\ pc' = [pc EXCEPT ![t] = "idle"]
    /\ th' = [th EXCEPT ![t] = NoLocals]
    /\ UNCHANGED <<mtx_, pending_parcels_, invoked, scheduled, nsent, thrown, early, enqueued>>
    /\ UNCHANGED <<lifecycle, elsewhere>>

\* --------------------------------------------------------- write completion
\* call_for_each with a loop that stops one handler short
call_for_each_one_short(fv, e, bytes_written, w) ==
    [k \in 1..(Len(fv) - 1) |-> [h |-> fv[k], e |-> e, bytes |-> bytes_written, w |-> w]]

\* call_for_each::operator()(e, bytes_written), lines 38-44: every handler of
\* the batch, in order, with the same arguments
call_for_each(fv, e, bytes_written, w) ==
    [k \in 1..Len(fv) |-> [h |-> fv[k], e |-> e, bytes |-> bytes_written, w |-> w]]

\* completion of the w-th write: the connection calls the first handler
\* (call_for_each), goes back to the cache it was constructed with, and calls
\* the second handler (the trampoline) with its destination
handle_write(w) ==
    /\ io_service_pool_ = "running"
    /\ ~written[w].done
    /\ \E o \in WriteOutcomes :
          /\ invoked' = invoked \o call_for_each(written[w].handlers, o.e, o.bytes, w)
          /\ written' = [written EXCEPT ![w].done = TRUE, ![w].e = o.e,
                                        ![w].bytes = o.bytes]
    /\ connection_cache_' = cache_after_add(written[w].dest, written[w].conn)
    /\ conns' = conns_after_add(written[w].dest, written[w].conn)
    /\ scheduled' = send_pending_parcels_trampoline(written[w].dest)
    /\ UNCHANGED <<pc, th, mtx_, pending_parcels_, nsent, thrown, early, enqueued>>
    /\ UNCHANGED <<lifecycle, elsewhere>>

\* ---------------------------------------------------------------- run, stop
\* what binding the acceptor to one local endpoint can fail with
AcceptOutcomes == {"ok", "open", "bind"}

\* lines 82-106: the loop over the accept endpoints env[k..], from the state
\* r = [acc: the acceptor, accepts, tried, errors, failed: per endpoint].  An
\* acceptor that is open already refuses open(); otherwise the environment
\* decides: open() throws, or bind()/listen() throws on the opened acceptor,
\* or async_accept is armed.  The for statement counts the endpoint as tried
\* on every path, continue included.
RECURSIVE run_loop(_, _, _)
run_loop(env, k, r) ==
    IF k > Len(env) THEN r
    ELSE LET fails == r.acc # "closed" \/ env[k] # "ok" IN
         run_loop(env, k + 1,
            [acc     |-> IF r.acc # "closed" THEN r.acc
                         ELSE IF env[k] = "ok" THEN "listening"
                         ELSE IF env[k] = "bind" THEN "open" ELSE "closed",
             accepts |-> IF fails THEN r.accepts ELSE r.accepts + 1,
             tried   |-> r.tried + 1,
             errors  |-> IF fails THEN r.errors + 1 ELSE r.errors,
             failed  |-> Append(r.failed, fails)])

\* line 108 raising as soon as one endpoint failed
any_attempt_failed(r) == r.errors > 0

\* line 108: errors.get_error_count() == tried
all_attempts_failed(r) == r.errors = r.tried

\* lines 70-115: run(blocking) with here_ resolving to Len(env) endpoints;
\* the transport is run once.  Whether the final io_service_pool_.run(blocking)
\* blocks the caller changes no state of the transport.
run(env) ==
    /\ io_service_pool_ = "created"
    /\ LET r == run_loop(env, 1,
                    [acc |-> IF acceptor_ = "NULL" THEN "closed" ELSE acceptor_,
                     accepts |-> accepts, tried |-> 0, errors |-> 0,
                     failed |-> <<>>])
       IN  /\ acceptor_' = r.acc
           /\ accepts' = r.accepts
           /\ last' = [op |-> "run", endpoints |-> Len(env), failed |-> r.failed,
                       result |-> IF all_attempts_failed(r)
                                  THEN "network_error" ELSE "pool.run"]
    /\ io_service_pool_' = "running"
    /\ UNCHANGED <<outbound, elsewhere>>

\* connection_cache_.clear(): every idle connection is closed and discarded
conns_after_clear ==
    [c \in ConnIds |->
        IF \E k \in 1..Len(connection_cache_) : connection_cache_[k] = c
        THEN [conns[c] EXCEPT !.st = "closed"] ELSE conns[c]]

\* lines 117-135: the calls stop(blocking) makes, in order
stop_calls(blocking) ==
    IF blocking
    THEN <<"pool.stop", "pool.join", "cache.clear">>
         \o (IF acceptor_ # "NULL" THEN <<"delete acceptor">> ELSE <<>>)
         \o <<"pool.clear">>
    ELSE <<"pool.stop">>

\* lines 117-135 without the connection_cache_.clear() of line 125
stop_keeps_cache(blocking) ==
    /\ io_service_pool_ \in {"created", "running", "stopped"}
    /\ last' = [op |-> "stop", blocking |-> blocking, calls |-> stop_calls(blocking)]
    /\ IF blocking
       THEN /\ io_service_pool_' = "cleared"
            /\ acceptor_' = "NULL"
            /\ accepts' = 0
       ELSE /\ io_service_pool_' = "stopped"
            /\ UNCHANGED <<acceptor_, accepts>>
    /\ UNCHANGED <<pc, th, mtx_, pending_parcels_, written, invoked, scheduled,
                   nsent, thrown, early, enqueued, connection_cache_, conns>>
    /\ UNCHANGED elsewhere

\* lines 117-135: stop(blocking)
stop(blocking) ==
    /\ io_service_pool_ \in {"created", "running", "stopped"}
    /\ last' = [op |-> "stop", blocking |-> blocking, calls |-> stop_calls(blocking)]
    /\ IF blocking
       THEN /\ io_service_pool_' = "cleared"
            /\ connection_cache_' = <<>>
            /\ conns' = conns_after_clear
            /\ acceptor_' = "NULL"
            /\ accepts' = 0
       ELSE /\ io_service_pool_' = "stopped"
            /\ UNCHANGED <<connection_cache_, conns, acceptor_, accepts>>
    /\ UNCHANGED <<pc, th, mtx_, pending_parcels_, written, invoked, scheduled,
                   nsent, thrown, early, enqueued>>
    /\ UNCHANGED elsewhere

\* the sequences of outcomes the local endpoints of here_ can meet
AcceptEnvs == UNION {[1..n -> AcceptOutcomes] : n \in 0..MaxEndpoints}

\* --------------------------------------------------------------------- Next
Next ==
    \/ \E t \in Threads : send_parcel_get(t)
    \/ \E t \in Threads : send_parcel_push_first(t)
    \/ \E t \in Threads : send_parcel_push_second(t)
    \/ \E t \in Threads : send_parcel_full(t)
    \/ \E t \in Threads : send_parcel_new(t)
    \/ \E t \in Threads : send_parcel_connect(t)
    \/ \E t \in Threads : send_parcel_swap_first(t)
    \/ \E t \in Threads : send_parcel_swap_second(t)
    \/ \E t \in Threads : send_parcel_write(t)
    \/ \E t \in Threads : send_pending_parcels_get(t)
    \/ \E t \in Threads : send_pending_parcels_swap_first(t)
    \/ \E t \in Threads : send_pending_parcels_swap_second(t)
    \/ \E t \in Threads : send_pending_parcels_write(t)
    \/ \E t \in Threads : Return(t)
    \/ \E w \in 1..Len(written) : handle_write(w)
    \/ \E env \in AcceptEnvs : run(env)
    \/ \E blocking \in BOOLEAN : stop(blocking)

Spec == Init /\ [][Next]_vars

\* The outbound path alone, on a transport that has been constructed and run
\* with one local endpoint that bound (the state run(<<"ok">>) leaves).
InitRunning ==
    /\ InitCoroutine
    /\ InitFunction
    /\ InitInbound
    /\ pc = [t \in Threads |-> "idle"]
    /\ th = [t \in Threads |-> NoLocals]
    /\ mtx_ = 0
    /\ pending_parcels_ = [d \in Prefixes |-> [first |-> <<>>, second |-> <<>>]]
    /\ connection_cache_ = <<>>
    /\ conns = [c \in ConnIds |-> [dest |-> 0, st |-> "none"]]
    /\ written = <<>>
    /\ invoked = <<>>
    /\ scheduled = [d \in Prefixes |-> 0]
    /\ nsent = 0
    /\ thrown = {}
    /\ early = {}
    /\ enqueued = <<>>
    /\ io_service_pool_ = "running"
    /\ acceptor_ = "listening"
    /\ accepts = 1
    /\ last = [op |-> "run", endpoints |-> 1, failed |-> <<FALSE>>,
               result |-> "pool.run"]

NextSend ==
    \/ \E t \in Threads : send_parcel_get(t)
    \/ \E t \in Threads : send_parcel_push_first(t)
    \/ \E t \in Threads : send_parcel_push_second(t)
    \/ \E t \in Threads : send_parcel_full(t)
    \/ \E t \in Threads : send_parcel_new(t)
    \/ \E t \in Threads : send_parcel_connect(t)
    \/ \E t \in Threads : send_parcel_swap_first(t)
    \/ \E t \in Threads : send_parcel_swap_second(t)
    \/ \E t \in Threads : send_parcel_write(t)
    \/ \E t \in Threads : send_pending_parcels_get(t)
    \/ \E t \in Threads : send_pending_parcels_swap_first(t)
    \/ \E t \in Threads : send_pending_parcels_swap_second(t)
    \/ \E t \in Threads : send_pending_parcels_write(t)
    \/ \E t \in Threads : Return(t)
    \/ \E w \in 1..Len(written) : handle_write(w)

SpecSend == InitRunning /\ [][NextSend]_vars

\* ------------------------------------------------- handle_accept, reads
\* what an accept can complete with while the transport runs (cancellation
\* comes only with the acceptor's deletion in stop), and what a read can
AcceptErrors == {"success", "connection_aborted"}
ReadErrors == {"success", "operation_aborted", "eof", "connection_reset"}

\* the connection the outstanding accept is waiting on, named when it completes
NextIncoming ==
    CHOOSE c \in Incoming :
        incoming[c].st = "none" /\ \A b \in Incoming : incoming[b].st = "none" => c <= b

\* lines 138-151: an outstanding accept completes with e and handle_accept
\* runs: without error it keeps the connection as c and arms async_accept on
\* a new connection; with an error it does nothing and the connection goes
handle_accept(e) ==
    /\ io_service_pool_ = "running"
    /\ accepts > 0
    /\ \E c \in Incoming : incoming[c].st = "none"
    /\ incoming' = [incoming EXCEPT ![NextIncoming] =
                       [st |-> IF e = "success" THEN "accepted" ELSE "dropped",
                        e |-> e]]
    /\ accepts' = IF e = "success" THEN (accepts - 1) + 1 ELSE accepts - 1
    /\ UNCHANGED <<io_service_pool_, acceptor_, last, parcels_received_, logged>>
    /\ UNCHANGED <<outbound, coroutines, functions>>

\* lines 153-157: handle_accept goes on: c->async_read(handle_read_completion)
handle_accept_read(c) ==
    /\ incoming[c].st = "accepted"
    /\ incoming' = [incoming EXCEPT ![c].st = "reading"]
    /\ UNCHANGED <<lifecycle, parcels_received_, logged>>
    /\ UNCHANGED <<outbound, coroutines, functions>>

\* lines 162-177 with a data point pushed for every completion
handle_read_completion_counts_all(c, e) ==
    /\ io_service_pool_ = "running"
    /\ incoming[c].st = "reading"
    /\ incoming' = [incoming EXCEPT ![c] = [st |-> "read", e |-> e]]
    /\ parcels_received_' = Append(parcels_received_, c)
    /\ logged' = IF e \notin {"success", "operation_aborted", "eof"}
                 THEN Append(logged, [c |-> c, e |-> e]) ELSE logged
    /\ UNCHANGED lifecycle
    /\ UNCHANGED <<outbound, coroutines, functions>>

\* lines 162-177: the read on c completes with e and handle_read_completion
\* runs: an error other than operation_aborted and eof is logged; otherwise
\* the data point of c is completed and pushed
handle_read_completion(c, e) ==
    /\ io_service_pool_ = "running"
    /\ incoming[c].st = "reading"
    /\ incoming' = [incoming EXCEPT ![c] = [st |-> "read", e |-> e]]
    /\ IF e # "success" /\ e # "operation_aborted" /\ e # "eof"
       THEN /\ logged' = Append(logged, [c |-> c, e |-> e])
            /\ UNCHANGED parcels_received_
       ELSE /\ parcels_received_' = Append(parcels_received_, c)
            /\ UNCHANGED logged
    /\ UNCHANGED lifecycle
    /\ UNCHANGED <<outbound, coroutines, functions>>

\* the transport's life and its inbound half
NextInbound ==
    \/ \E env \in AcceptEnvs : run(env)
    \/ \E blocking \in BOOLEAN : stop(blocking)
    \/ \E e \in AcceptErrors : handle_accept(e)
    \/ \E c \in Incoming : handle_accept_read(c)
    \/ \E c \in Incoming, e \in ReadErrors : handle_read_completion(c, e)

SpecInbound == Init /\ [][NextInbound]_vars

\* ------------------------------------------------------------- coroutine_impl
\* who runs: the innermost coroutine control was switched into, 0 = the
\* thread's own stack
Running == IF ctl = <<>> THEN 0 ELSE ctl[Len(ctl)]

\* code outside operator() is executing: the thread itself, or the work item
\* of the running coroutine
InUserCode == IF ctl = <<>> THEN TRUE ELSE cpc[Running] = "fun"

\* a work item is bound to a context that has none: construction, or rebind
\* of a context whose previous work item has been delivered
coroutine_rebind(c) ==
    /\ InUserCode
    /\ nbinds < MaxBinds
    /\ \A k \in 1..Len(ctl) : ctl[k] # c
    /\ cpc[c] \in {"none", "suspended"}
    /\ m_fun[c] = NoFun
    /\ \E throws \in BOOLEAN :
          m_fun' = [m_fun EXCEPT ![c] = [id |-> nbinds + 1, throws |-> throws]]
    /\ m_state' = [m_state EXCEPT ![c] = "ctx_ready"]
    /\ nbinds' = nbinds + 1
    /\ UNCHANGED <<current_self, m_result, cpc, cl, ctl, delivered, ran, invocations>>
    /\ UNCHANGED <<outbound, lifecycle, functions, inbound>>

\* the resumer switches into a ready context: a fresh one enters operator()
\* (lines 72-79), a rebound one comes back from do_return (line 105)
coroutine_invoke(c) ==
    /\ InUserCode
    /\ \A k \in 1..Len(ctl) : ctl[k] # c
    /\ m_state[c] = "ctx_ready"
    /\ m_state' = [m_state EXCEPT ![c] = "ctx_running"]
    /\ ctl' = Append(ctl, c)
    /\ IF cpc[c] = "none"
       THEN /\ cpc' = [cpc EXCEPT ![c] = "enter"]
            /\ cl' = [cl EXCEPT ![c] = NoCoLocals]
            /\ invocations' = [invocations EXCEPT ![c] = @ + 1]
       ELSE /\ cpc' = [cpc EXCEPT ![c] = "while"]
            /\ UNCHANGED <<cl, invocations>>
    /\ UNCHANGED <<current_self, m_fun, m_result, delivered, ran, nbinds>>
    /\ UNCHANGED <<outbound, lifecycle, functions, inbound>>

\* the context is switched into without a new work item (its final stop):
\* do_return comes back with m_state not ctx_running
coroutine_unwind(c) ==
    /\ ctl = <<>>
    /\ cpc[c] = "suspended"
    /\ m_state[c] = "ctx_exited"
    /\ ctl' = Append(ctl, c)
    /\ cpc' = [cpc EXCEPT ![c] = "while"]
    /\ UNCHANGED <<current_self, m_state, m_fun, m_result, cl, delivered, ran,
                   invocations, nbinds>>
    /\ UNCHANGED <<outbound, lifecycle, functions, inbound>>

\* lines 49-54 with the default argument old_val = nullptr
reset_self_on_exit_default(val, old_val) == [installed |-> val, old_self |-> 0]

\* lines 49-54: reset_self_on_exit(val, old_val): the marker it installs and
\* the one it keeps for its destructor
reset_self_on_exit(val, old_val) == [installed |-> val, old_self |-> old_val]

\* lines 84-90: one iteration begins: an empty tinfo, the self object of this
\* iteration chained to the current marker, and the marker set to it
operator_install(c) ==
    /\ Running = c
    /\ cpc[c] = "enter"
    /\ LET g == reset_self_on_exit(c, current_self) IN
          /\ cl' = [cl EXCEPT ![c].tinfo = 0,
                              ![c].old_self = current_self,
                              ![c].self_next = current_self,
                              ![c].on_exit = g.old_self,
                              ![c].item = m_fun[c]]
          /\ current_self' = g.installed
    /\ ran' = Append(ran, [c |-> c, item |-> m_fun[c].id,
                           invocation |-> invocations[c],
                           before |-> current_self])
    /\ cpc' = [cpc EXCEPT ![c] = "fun"]
    /\ UNCHANGED <<m_state, m_fun, m_result, ctl, delivered, invocations, nbinds>>
    /\ UNCHANGED <<outbound, lifecycle, functions, inbound>>

\* lines 92-102 with the exception leaving operator()
operator_fun_no_catch(c) ==
    /\ Running = c
    /\ cpc[c] = "fun"
    /\ current_self' = cl[c].on_exit
    /\ IF m_fun[c].throws
       THEN /\ cpc' = [cpc EXCEPT ![c] = "escaped"]
            /\ ctl' = SubSeq(ctl, 1, Len(ctl) - 1)
            /\ UNCHANGED cl
       ELSE /\ cl' = [cl EXCEPT ![c].result_last = <<"terminated", m_fun[c].id>>]
            /\ cpc' = [cpc EXCEPT ![c] = "bind"]
            /\ UNCHANGED ctl
    /\ UNCHANGED <<m_state, m_fun, m_result, delivered, ran, invocations, nbinds>>
    /\ UNCHANGED <<outbound, lifecycle, functions, inbound>>

\* lines 92-94 and 99-102: m_fun runs to its end and the block is left, by
\* return or by exception: ~reset_self_on_exit (lines 56-59) puts the marker
\* back; a return value goes to result_last, an exception to status and tinfo
operator_fun(c) ==
    /\ Running = c
    /\ cpc[c] = "fun"
    /\ current_self' = cl[c].on_exit
    /\ IF m_fun[c].throws
       THEN /\ cl' = [cl EXCEPT ![c].status = "ctx_exited_abnormally",
                                ![c].tinfo = m_fun[c].id]
            /\ cpc' = [cpc EXCEPT ![c] = "reset"]
       ELSE /\ cl' = [cl EXCEPT ![c].result_last = <<"terminated", m_fun[c].id>>]
            /\ cpc' = [cpc EXCEPT ![c] = "bind"]
    /\ UNCHANGED <<m_state, m_fun, m_result, ctl, delivered, ran, invocations, nbinds>>
    /\ UNCHANGED <<outbound, lifecycle, functions, inbound>>

\* line 97: this->bind_result(result_last)
operator_bind_result(c) ==
    /\ Running = c
    /\ cpc[c] = "bind"
    /\ m_result' = [m_result EXCEPT ![c] = cl[c].result_last]
    /\ cpc' = [cpc EXCEPT ![c] = "reset"]
    /\ UNCHANGED <<current_self, m_state, m_fun, cl, ctl, delivered, ran,
                   invocations, nbinds>>
    /\ UNCHANGED <<outbound, lifecycle, functions, inbound>>

\* line 104: this->reset() releases the work item
operator_reset(c) ==
    /\ Running = c
    /\ cpc[c] = "reset"
    /\ m_fun' = [m_fun EXCEPT ![c] = NoFun]
    /\ cpc' = [cpc EXCEPT ![c] = "do_return"]
    /\ UNCHANGED <<current_self, m_state, m_result, cl, ctl, delivered, ran,
                   invocations, nbinds>>
    /\ UNCHANGED <<outbound, lifecycle, functions, inbound>>

\* line 105: do_return(status, tinfo) marks the context exited and switches
\* back to the resumer, which sees the status, the payload and the result
operator_do_return(c) ==
    /\ Running = c
    /\ cpc[c] = "do_return"
    /\ m_state' = [m_state EXCEPT ![c] = "ctx_exited"]
    /\ delivered' = Append(delivered,
                       [c |-> c, item |-> cl[c].item, status |-> cl[c].status,
                        tinfo |-> cl[c].tinfo, result |-> m_result[c],
                        before |-> cl[c].old_self, marker |-> current_self])
    /\ ctl' = SubSeq(ctl, 1, Len(ctl) - 1)
    /\ cpc' = [cpc EXCEPT ![c] = "suspended"]
    /\ UNCHANGED <<current_self, m_fun, m_result, cl, ran, invocations, nbinds>>
    /\ UNCHANGED <<outbound, lifecycle, functions, inbound>>

\* line 106 leaving the loop after the first work item
operator_while_once(c) ==
    /\ Running = c
    /\ cpc[c] = "while"
    /\ cpc' = [cpc EXCEPT ![c] = "exit"]
    /\ ctl' = SubSeq(ctl, 1, Len(ctl) - 1)
    /\ UNCHANGED <<current_self, m_state, m_fun, m_result, cl, delivered, ran,
                   invocations, nbinds>>
    /\ UNCHANGED <<outbound, lifecycle, functions, inbound>>

\* line 106: while (m_state == ctx_running); leaving the loop ends operator()
operator_while(c) ==
    /\ Running = c
    /\ cpc[c] = "while"
    /\ IF m_state[c] = "ctx_running"
       THEN /\ cpc' = [cpc EXCEPT ![c] = "enter"]
            /\ UNCHANGED ctl
       ELSE /\ cpc' = [cpc EXCEPT ![c] = "exit"]
            /\ ctl' = SubSeq(ctl, 1, Len(ctl) - 1)
    /\ UNCHANGED <<current_self, m_state, m_fun, m_result, cl, delivered, ran,
                   invocations, nbinds>>
    /\ UNCHANGED <<outbound, lifecycle, functions, inbound>>

NextCoroutine ==
    \/ \E c \in Coros : coroutine_rebind(c)
    \/ \E c \in Coros : coroutine_invoke(c)
    \/ \E c \in Coros : coroutine_unwind(c)
    \/ \E c \in Coros : operator_install(c)
    \/ \E c \in Coros : operator_fun(c)
    \/ \E c \in Coros : operator_bind_result(c)
    \/ \E c \in Coros : operator_reset(c)
    \/ \E c \in Coros : operator_do_return(c)
    \/ \E c \in Coros : operator_while(c)

SpecCoroutine == Init /\ [][NextCoroutine]_vars

\* ------------------------------------------------------------ function_base
\* The operations are functions of a world w: the containers, the heap, and
\* what the operation has done so far: d payload destructor calls, a heap
\* allocations, fr heap deallocations, ub set when a pointer that holds no
\* live payload was used, err the exception the operation raised; raise
\* says whether the payload constructor the operation calls raises.
World(b, h) ==
    [fb |-> b, heap |-> h, d |-> 0, a |-> 0, fr |-> 0, ub |-> FALSE, err |-> "none",
     raise |-> FALSE]

\* the operation has raised
Raised(w) == w.err # "none"

Cell(w, obj) ==
    IF obj.at = "storage" THEN w.fb[obj.of].storage
    ELSE IF obj.at = "heap" THEN w.heap[obj.of]
    ELSE Free

Put(w, obj, x) ==
    IF obj.at = "storage" THEN [w EXCEPT !.fb[obj.of].storage = x]
    ELSE IF obj.at = "heap" THEN [w EXCEPT !.heap[obj.of] = x]
    ELSE [w EXCEPT !.ub = TRUE]

\* the destructor of T, run on what obj points to
dtor(w, obj, T) ==
    IF Cell(w, obj).type = T THEN [Put(w, obj, Raw) EXCEPT !.d = @ + 1]
    ELSE [w EXCEPT !.ub = TRUE]

\* vtable::allocate<T>(storage, function_storage_size): the inline buffer
\* when T fits, else a fresh heap cell
vtable_allocate(w, f, T) ==
    IF Inline(T) THEN Storage(f)
    ELSE Heap(CHOOSE a \in Addrs :
                 /\ w.heap[a] = Free
                 /\ \A b \in Addrs : w.heap[b] = Free => a <= b)

\* ::new (buffer) T(v); a free cell becomes allocated by it; a constructor
\* that raises leaves the buffer as it was
construct(w, buffer, T, v) ==
    LET w1 == Put(w, buffer, [type |-> T, val |-> v]) IN
    IF w.raise THEN [w EXCEPT !.err = "payload"]
    ELSE IF buffer.at = "heap" /\ Cell(w, buffer) = Free
    THEN [w1 EXCEPT !.a = @ + 1] ELSE w1

\* vptr->deallocate(object, function_storage_size, /*destroy*/true)
vtable_deallocate(w, obj, T) ==
    LET w1 == dtor(w, obj, T) IN
    IF obj.at = "heap" /\ ~Inline(T)
    THEN [w1 EXCEPT !.heap[obj.of] = Free, !.fr = @ + 1] ELSE w1

\* the copy constructor of T reads the payload src points to
read(w, src, T) == IF Cell(w, src).type = T THEN w ELSE [w EXCEPT !.ub = TRUE]

\* vptr->copy(storage, function_storage_size, src, /*destroy*/false)
vtable_copy(w, f, T, src) ==
    LET buffer == vtable_allocate(w, f, T)
        c == construct(read(w, src, T), buffer, T, Cell(w, src).val) IN
    IF Raised(c) THEN c ELSE [c EXCEPT !.fb[f].object = buffer]

\* vptr->copy(object, -1, src, /*destroy*/true): the payload is destroyed and
\* the copy constructed where it was
vtable_copy_reuse(w, f, T, src) ==
    LET obj == w.fb[f].object
        v == Cell(w, src).val IN
    construct(dtor(read(w, src, T), obj, T), obj, T, v)

\* lines 268-276 leaving the payload alone
destroy_nothing(w, f) == w

\* lines 268-276: destroy()
destroy(w, f) ==
    IF w.fb[f].object # nullptr
    THEN vtable_deallocate(w, w.fb[f].object, w.fb[f].vptr)
    ELSE w

\* lines 278-283: reset()
reset(w, f) ==
    [destroy(w, f) EXCEPT !.fb[f].vptr = EmptyVtable, !.fb[f].object = nullptr]

\* lines 296-299: empty()
empty(w, f) == w.fb[f].object = nullptr

\* lines 285-289 without the two fix-ups of lines 290-293
function_base_swap_no_fixup(w, f, g) ==
    LET x == w.fb[f]
        y == w.fb[g]
        w1 == [w EXCEPT !.fb[f].vptr = y.vptr, !.fb[f].object = y.object,
                        !.fb[f].storage = y.storage]
    IN  IF f = g THEN w
        ELSE [w1 EXCEPT !.fb[g].vptr = x.vptr, !.fb[g].object = x.object,
                        !.fb[g].storage = x.storage]

\* lines 285-294: function_base::swap(f): the three members are exchanged,
\* then a pointer into the other container's buffer is set to the own one
function_base_swap(w, f, g) ==
    LET x == w.fb[f]
        y == w.fb[g]
        w1 == [w EXCEPT !.fb[f].vptr = y.vptr, !.fb[f].object = y.object,
                        !.fb[f].storage = y.storage]
        w2 == IF f = g THEN w
              ELSE [w1 EXCEPT !.fb[g].vptr = x.vptr, !.fb[g].object = x.object,
                              !.fb[g].storage = x.storage]
        w3 == IF w2.fb[f].object = Storage(g)
              THEN [w2 EXCEPT !.fb[f].object = Storage(f)] ELSE w2
    IN  IF w3.fb[g].object = Storage(f)
        THEN [w3 EXCEPT !.fb[g].object = Storage(g)] ELSE w3

\* lines 421-425: basic_function::swap
swap(w, f, g) ==
    LET w1 == function_base_swap(w, f, g) IN
    IF f = g THEN w1
    ELSE [w1 EXCEPT !.fb[f].serializable_vptr = w.fb[g].serializable_vptr,
                    !.fb[g].serializable_vptr = w.fb[f].serializable_vptr]

\* lines 249-260 always releasing the old storage and allocating anew
function_base_assign_realloc(w, f, T, v) ==
    LET w1 == [destroy(w, f) EXCEPT !.fb[f].vptr = T]
        buffer == vtable_allocate(w1, f, T)
        c == construct(w1, buffer, T, v) IN
    IF Raised(c) THEN c ELSE [c EXCEPT !.fb[f].object = buffer]

\* lines 249-262: assign(F&& f) of a callable of type T and value v that is
\* not an empty function; object is assigned at line 262 once the
\* constructor has returned
function_base_assign(w, f, T, v) ==
    IF w.fb[f].vptr = T
    THEN LET buffer == w.fb[f].object IN
         construct(dtor(w, buffer, T), buffer, T, v)
    ELSE LET w1 == [destroy(w, f) EXCEPT !.fb[f].vptr = T]
             buffer == vtable_allocate(w1, f, T)
             c == construct(w1, buffer, T, v) IN
         IF Raised(c) THEN c ELSE [c EXCEPT !.fb[f].object = buffer]

\* lines 118-147: is_empty_function: a null function pointer, a null member
\* pointer, an empty callable container
is_empty_function(x) == x.k \in {"null_fp", "null_mp", "empty_container"}

\* lines 233-266 and 410-419: assign(nullptr), and basic_function::assign(F&&)
assign(w, f, x) ==
    IF x.k = "nullptr" THEN reset(w, f)
    ELSE IF is_empty_function(x) THEN reset(w, f)
    ELSE LET c == function_base_assign([w EXCEPT !.raise = x.throws], f,
                                       x.type, x.val) IN
         IF Raised(c) THEN c ELSE [c EXCEPT !.fb[f].serializable_vptr = x.type]

\* lines 196-221: operator=(function_base const& other), and the copy of
\* serializable_vptr by basic_function's own copy assignment
copy_assign(w, f, g) ==
    LET o == w.fb[g]
        w1 == IF w.fb[f].vptr = o.vptr
              THEN IF f # g /\ w.fb[f].object # nullptr
                   THEN vtable_copy_reuse(w, f, o.vptr, o.object)
                   ELSE w
              ELSE LET w2 == [destroy(w, f) EXCEPT !.fb[f].vptr = o.vptr] IN
                   IF o.object # nullptr
                   THEN vtable_copy(w2, f, o.vptr, o.object)
                   ELSE [w2 EXCEPT !.fb[f].object = nullptr]
    IN IF Raised(w1) THEN w1
       ELSE [w1 EXCEPT !.fb[f].serializable_vptr = o.serializable_vptr]

\* lines 223-231: operator=(function_base&& other)
move_assign(w, f, g) ==
    IF f # g
    THEN [reset(function_base_swap(w, f, g), g)
             EXCEPT !.fb[f].serializable_vptr = w.fb[g].serializable_vptr]
    ELSE w

\* lines 166-176: function_base(function_base const& other) into the dead f;
\* when the copy raises no container has come to be
copy_construct(w, f, g) ==
    LET o == w.fb[g]
        w1 == [w EXCEPT !.fb[f] = [alive |-> TRUE, vptr |-> o.vptr,
                                   object |-> o.object, storage |-> Raw,
                                   serializable_vptr |-> o.serializable_vptr]]
        c == IF o.object # nullptr THEN vtable_copy(w1, f, o.vptr, o.object) ELSE w1
    IN IF Raised(c) THEN [w EXCEPT !.err = c.err] ELSE c

\* lines 178-189: function_base(function_base&& other) into the dead f: an
\* inline payload is moved with its bytes, a heap cell changes hands
move_construct(w, f, g) ==
    LET o == w.fb[g]
        w1 == [w EXCEPT !.fb[f] = [alive |-> TRUE, vptr |-> o.vptr,
                                   object |-> o.object, storage |-> Raw,
                                   serializable_vptr |-> o.serializable_vptr]]
        w2 == IF o.object = Storage(g)
              THEN [w1 EXCEPT !.fb[f].storage = o.storage,
                              !.fb[f].object = Storage(f),
                              !.fb[g].storage = Raw]
              ELSE w1
    IN [w2 EXCEPT !.fb[g].vptr = EmptyVtable, !.fb[g].object = nullptr]

\* lines 306-320: target<T>(): 0 stands for the null result
target(w, f, T) ==
    IF w.fb[f].vptr # T \/ empty(w, f) THEN Raw ELSE Cell(w, w.fb[f].object)

\* lines 338-341: operator(): vptr->invoke(object, ...); the table of the
\* empty state raises, a payload's entry called with a null object crashes
invoke(w, f) ==
    IF w.fb[f].vptr = EmptyVtable THEN "EmptyCallable"
    ELSE IF w.fb[f].object = nullptr THEN "null_object"
    ELSE IF Cell(w, w.fb[f].object).type = w.fb[f].vptr THEN "called"
    ELSE "dead_object"

\* ----------------------------------------------------------- basic_function
\* the type registry: the name a serializable vtable carries, and the lookup
\* detail::get_serializable_vtable<vtable>(name), "none" when absent
NameOf(T) == IF T = "T1" THEN "N1" ELSE IF T = "T2" THEN "N2" ELSE "no_name"
Lookup(name) == IF name = "N1" THEN "T1" ELSE IF name = "N2" THEN "T2" ELSE "none"

\* the payload's own serializer: the bytes written for a value and read back;
\* bytes that end early cannot be read back
save_object(v) == <<"object", NumVals - v>>
load_object(bytes) == NumVals - bytes[2]
Truncated == <<"truncated", 0>>
Readable(bytes) == bytes[1] = "object"

\* the archive records a load can meet: an empty container, or a name and
\* the bytes of a payload, whole or not; the name "N3" is in no registry
ArchiveInputs ==
    {<<TRUE>>}
    \cup {<<FALSE, n, save_object(v)>> : n \in {"N1", "N2", "N3"}, v \in Vals}
    \cup {<<FALSE, n, Truncated>> : n \in {"N1", "N2"}}

\* lines 430-441: save: what is written to the archive
save(w, f) ==
    IF empty(w, f) THEN <<TRUE>>
    ELSE <<FALSE, NameOf(w.fb[f].serializable_vptr),
           save_object(Cell(w, w.fb[f].object).val)>>

\* lines 443-459 with the registry asked before the container is reset
load_lookup_first(w, f, rec) ==
    IF rec[1] THEN reset(w, f)
    ELSE IF Lookup(rec[2]) = "none" THEN [w EXCEPT !.err = "UnknownCallableType"]
    ELSE LET T == Lookup(rec[2])
             w1 == [reset(w, f) EXCEPT !.fb[f].serializable_vptr = T,
                                       !.fb[f].vptr = T]
             buffer == vtable_allocate(w1, f, T)
             c == construct(w1, buffer, T, load_object(rec[3])) IN
         IF ~Readable(rec[3]) THEN [w1 EXCEPT !.err = "archive"]
         ELSE [c EXCEPT !.fb[f].object = buffer]

\* lines 443-459 without the reset of line 445
load_no_reset(w, f, rec) ==
    IF rec[1] THEN w
    ELSE IF Lookup(rec[2]) = "none" THEN [w EXCEPT !.err = "UnknownCallableType"]
    ELSE LET T == Lookup(rec[2])
             w1 == [w EXCEPT !.fb[f].serializable_vptr = T, !.fb[f].vptr = T]
             buffer == vtable_allocate(w1, f, T)
             c == construct(w1, buffer, T, load_object(rec[3])) IN
         IF ~Readable(rec[3]) THEN [w1 EXCEPT !.err = "archive"]
         ELSE [c EXCEPT !.fb[f].object = buffer]

\* lines 443-459: load: reset, then the flag, the name, the registry, vptr
\* (line 455), and the payload rebuilt in the inline buffer or on the heap
\* (lines 456-457), which raises when the bytes cannot be read
load(w, f, rec) ==
    LET w0 == reset(w, f) IN
    IF rec[1] THEN w0
    ELSE IF Lookup(rec[2]) = "none" THEN [w0 EXCEPT !.err = "UnknownCallableType"]
    ELSE LET T == Lookup(rec[2])
             w1 == [w0 EXCEPT !.fb[f].serializable_vptr = T, !.fb[f].vptr = T]
             buffer == vtable_allocate(w1, f, T)
             c == construct(w1, buffer, T, load_object(rec[3])) IN
         IF ~Readable(rec[3]) THEN [w1 EXCEPT !.err = "archive"]
         ELSE [c EXCEPT !.fb[f].object = buffer]

\* ------------------------------------------------- operations on containers
\* what a container can be assigned
AssignArgs ==
    {[k |-> n, type |-> EmptyVtable, val |-> 0, throws |-> FALSE] :
        n \in {"nullptr", "null_fp", "null_mp", "empty_container"}}
    \cup {[k |-> "callable", type |-> T, val |-> v, throws |-> r] :
             T \in Types, v \in Vals, r \in BOOLEAN}

NoArg == [k |-> "none", type |-> EmptyVtable, val |-> 0, throws |-> FALSE]

\* an operation has used a pointer that holds no live payload: what the
\* program does from there on is undefined, and is not followed
Crashed ==
    IF flast.op = "none" THEN FALSE
    ELSE flast.ub \/ flast.ret \in {"null_object", "dead_object"}

\* the operation op on f (and g, with argument x, archive rec) has led to w
Done(op, f, g, x, rec, w, ret) ==
    /\ ~Crashed
    /\ fb' = w.fb
    /\ heap' = w.heap
    /\ flast' = [op |-> op, f |-> f, g |-> g, x |-> x, rec |-> rec, pre |-> fb,
                 preheap |-> heap, d |-> w.d, a |-> w.a, fr |-> w.fr,
                 ub |-> w.ub, err |-> w.err, ret |-> ret]
    /\ UNCHANGED <<outbound, lifecycle, coroutines, inbound>>

\* a destroyed container: its storage is gone
Dead == [EmptyFunction EXCEPT !.alive = FALSE]

\* lines 191-194: ~function_base()
function_destruct(f) ==
    /\ fb[f].alive
    /\ Done("destruct", f, f, NoArg, <<TRUE>>,
            [destroy(World(fb, heap), f) EXCEPT !.fb[f] = Dead], "void")
    /\ UNCHANGED ar

function_construct(f) ==
    /\ ~fb[f].alive
    /\ \/ Done("construct", f, f, NoArg, <<TRUE>>,
               [World(fb, heap) EXCEPT !.fb[f] = EmptyFunction], "void")
       \/ \E g \in Fns, r \in BOOLEAN :
             /\ fb[g].alive
             /\ Done("copy_construct", f, g, NoArg, <<TRUE>>,
                     copy_construct([World(fb, heap) EXCEPT !.raise = r], f, g),
                     "void")
       \/ \E g \in Fns :
             /\ fb[g].alive
             /\ Done("move_construct", f, g, NoArg, <<TRUE>>,
                     move_construct(World(fb, heap), f, g), "void")
    /\ UNCHANGED ar

function_copy_assign(f, g) ==
    /\ fb[f].alive /\ fb[g].alive
    /\ \E r \in BOOLEAN :
          Done("copy_assign", f, g, NoArg, <<TRUE>>,
               copy_assign([World(fb, heap) EXCEPT !.raise = r], f, g), "void")
    /\ UNCHANGED ar

function_move_assign(f, g) ==
    /\ fb[f].alive /\ fb[g].alive
    /\ Done("move_assign", f, g, NoArg, <<TRUE>>,
            move_assign(World(fb, heap), f, g), "void")
    /\ UNCHANGED ar

function_assign(f, x) ==
    /\ fb[f].alive
    /\ Done("assign", f, f, x, <<TRUE>>, assign(World(fb, heap), f, x), "void")
    /\ UNCHANGED ar

function_reset(f) ==
    /\ fb[f].alive
    /\ Done("reset", f, f, NoArg, <<TRUE>>, reset(World(fb, heap), f), "void")
    /\ UNCHANGED ar

function_swap(f, g) ==
    /\ fb[f].alive /\ fb[g].alive
    /\ Done("swap", f, g, NoArg, <<TRUE>>, swap(World(fb, heap), f, g), "void")
    /\ UNCHANGED ar

function_invoke(f) ==
    /\ fb[f].alive
    /\ Done("invoke", f, f, NoArg, <<TRUE>>, World(fb, heap),
            invoke(World(fb, heap), f))
    /\ UNCHANGED ar

\* save writes the archive; from is the container it was written from
function_save(f) ==
    /\ fb[f].alive
    /\ ar' = [rec |-> save(World(fb, heap), f),
              from |-> [empty |-> empty(World(fb, heap), f),
                        vptr |-> fb[f].vptr,
                        payload |-> Cell(World(fb, heap), fb[f].object)]]
    /\ Done("save", f, f, NoArg, save(World(fb, heap), f),
            [World(fb, heap) EXCEPT
                !.ub = ~empty(World(fb, heap), f)
                       /\ Cell(World(fb, heap), fb[f].object).type # fb[f].vptr],
            "void")

\* load reads the archive saved last, or a record from elsewhere
function_load(f, rec) ==
    /\ fb[f].alive
    /\ Done("load", f, f, NoArg, rec, load(World(fb, heap), f, rec), "void")
    /\ UNCHANGED ar

NextFunction ==
    \/ \E f \in Fns : function_destruct(f)
    \/ \E f \in Fns : function_construct(f)
    \/ \E f, g \in Fns : function_copy_assign(f, g)
    \/ \E f, g \in Fns : function_move_assign(f, g)
    \/ \E f \in Fns, x \in AssignArgs : function_assign(f, x)
    \/ \E f \in Fns : function_reset(f)
    \/ \E f, g \in Fns : function_swap(f, g)
    \/ \E f \in Fns : function_invoke(f)
    \/ \E f \in Fns : function_save(f)
    \/ \E f \in Fns, rec \in ArchiveInputs : function_load(f, rec)

SpecFunction == Init /\ [][NextFunction]_vars

\* ================================================================== claims
Range(s) == {s[k] : k \in 1..Len(s)}

\* how often connection c sits in the cache's idle set
CacheCount(c) ==
    Cardinality({k \in 1..Len(connection_cache_) : connection_cache_[k] = c})

\* the invocations that hold connection c and have not handed it on
Holders(c) ==
    {t \in Threads :
        pc[t] \notin {"idle", "sp_done", "sp_thrown", "dp_done"} /\ th[t].conn = c}

\* the asynchronous writes outstanding on connection c
Outstanding(c) ==
    Cardinality({w \in 1..Len(written) : written[w].conn = c /\ ~written[w].done})

\* position of parcel id k in the push order
PushPos(k) == CHOOSE j \in 1..Len(enqueued) : enqueued[j] = k

\* the handler invocations made by the completion of write w
InvokedBy(w) == SelectSeq(invoked, LAMBDA r : r.w = w)

\* C4: the completion of a batched write invokes every handler drained with
\* the batch exactly once, in the order the pairs were enqueued, each with
\* the error code and byte count of that write; before the completion none
\* of them is invoked.
C4_BatchHandlers ==
    \A w \in 1..Len(written) :
        LET b == written[w]
            inv == InvokedBy(w)
        IN  /\ b.handlers = [k \in 1..Len(b.parcels) |-> b.parcels[k].id]
            /\ \A j, k \in 1..Len(b.handlers) :
                  j < k => PushPos(b.handlers[j]) < PushPos(b.handlers[k])
            /\ IF b.done
               THEN /\ [k \in 1..Len(inv) |-> inv[k].h] = b.handlers
                    /\ \A k \in 1..Len(inv) : inv[k].e = b.e /\ inv[k].bytes = b.bytes
               ELSE inv = <<>>

\* a write of two pairs has completed
C4_Witness ==
    \E w \in 1..Len(written) :
        written[w].done /\ Len(written[w].handlers) = 2 /\ Len(InvokedBy(w)) = 2

\* C5: whenever mtx_ is free the parcel sequence and the handler sequence of
\* every destination have equal length, and so have the two vectors a drain
\* took and the two vectors of every write issued.
C5_EqualLength ==
    /\ mtx_ = 0 =>
          \A d \in Prefixes :
              Len(pending_parcels_[d].first) = Len(pending_parcels_[d].second)
    /\ \A t \in Threads :
          pc[t] \in {"sp_write", "dp_write"} =>
              Len(th[t].parcels) = Len(th[t].handlers)
    /\ \A w \in 1..Len(written) :
          Len(written[w].parcels) = Len(written[w].handlers)

\* outside the critical sections a queue holds a pair while a drain has taken two
C5_Witness ==
    /\ mtx_ = 0
    /\ \E t, u \in Threads :
          /\ pc[t] \in {"sp_write", "dp_write"} /\ Len(th[t].parcels) = 1
          /\ pc[u] = "sp_full"
          /\ Len(pending_parcels_[th[u].prefix].first) = 1

\* C7: the connect phase makes at most HPX_MAX_NETWORK_RETRIES sweeps, each
\* over the endpoints in iteration order; no attempt follows one that
\* succeeded; the call raises exactly when every endpoint failed in every
\* sweep (always, for a destination without endpoints), and goes on to the
\* drain exactly when its last attempt succeeded.
C7_ConnectRetries ==
    \A t \in Threads :
        LET l == th[t] IN
        /\ (pc[t] \in {"sp_connect", "sp_swap1", "sp_thrown"} /\ l.created) =>
              /\ Len(l.log) <= HPX_MAX_NETWORK_RETRIES * l.n
              /\ \A k \in 1..Len(l.log) :
                    /\ l.log[k].sweep = (k - 1) \div l.n
                    /\ l.log[k].sweep < HPX_MAX_NETWORK_RETRIES
                    /\ l.log[k].ep = ((k - 1) % l.n) + 1
              /\ \A k \in 1..(Len(l.log) - 1) : ~l.log[k].ok
        /\ pc[t] = "sp_connect" => \A k \in 1..Len(l.log) : ~l.log[k].ok
        /\ pc[t] = "sp_thrown" =>
              /\ l.created
              /\ Len(l.log) = HPX_MAX_NETWORK_RETRIES * l.n
              /\ \A k \in 1..Len(l.log) : ~l.log[k].ok
        /\ (pc[t] = "sp_swap1" /\ l.created) =>
              l.log # <<>> /\ l.log[Len(l.log)].ok

\* a connect that succeeds in a later sweep, after a sweep in which every
\* endpoint failed
C7_Witness ==
    \E t \in Threads :
        /\ pc[t] = "sp_swap1" /\ th[t].created
        /\ th[t].n = MaxEndpoints
        /\ Len(th[t].log) > th[t].n
        /\ th[t].log[Len(th[t].log)].ok

\* C8: every live outbound connection is in exactly one place: idle in the
\* cache (once), or held by exactly one send_parcel / send_pending_parcels
\* invocation, or carrying exactly one outstanding asynchronous write; a
\* connection that was closed is in none of them.
C8_ConnectionOwnership ==
    \A c \in ConnIds :
        IF Alive(c)
        THEN CacheCount(c) + Cardinality(Holders(c)) + Outstanding(c) = 1
        ELSE CacheCount(c) = 0 /\ Holders(c) = {} /\ Outstanding(c) = 0

\* one connection is idle in the cache while another one is in use
C8_Witness ==
    \E c, b \in ConnIds :
        /\ c # b
        /\ CacheCount(c) = 1
        /\ Outstanding(b) = 1 \/ Holders(b) # {}

\* nothing is running and nothing is scheduled
Quiescent ==
    /\ \A t \in Threads : pc[t] = "idle"
    /\ \A w \in 1..Len(written) : written[w].done
    /\ \A d \in Prefixes : scheduled[d] = 0

\* C1: no pair stays in a pending queue for ever: once every call has
\* returned, every write has completed and every scheduled drain has run, on a
\* transport that is running and on which no connect failed for good and
\* every write succeeded, no pending queue holds a pair.
C1_NothingLeftQueued ==
    (/\ Quiescent
     /\ thrown = {}
     /\ \A w \in 1..Len(written) : written[w].e = 0
     /\ io_service_pool_ = "running") =>
        \A d \in Prefixes : pending_parcels_[d].first = <<>>

\* C2 (scenario A): with max_connections_per_loc = 1, when the first two
\* send_parcel calls are for one destination and both begin before a
\* connection to it exists, one connection is opened for it; and once both
\* handlers have been invoked, one write was issued, it carried both parcels,
\* and the handlers were invoked once each in submission order.
C2_ScenarioA ==
    max_connections_per_loc = 1 =>
        \A d \in Prefixes :
            (early = {Parcel(1, d), Parcel(2, d)} /\ thrown = {}) =>
                /\ Cardinality({c \in ConnIds : conns[c].dest = d}) <= 1
                /\ {1, 2} \subseteq {invoked[k].h : k \in 1..Len(invoked)} =>
                      /\ Len(written) = 1
                      /\ written[1].parcels = <<Parcel(1, d), Parcel(2, d)>>
                      /\ [k \in 1..Len(invoked) |-> invoked[k].h] = <<1, 2>>

\* C3 (scenario B): send_parcel raises network_error only after every endpoint
\* failed in every sweep; a send_parcel that connected, with no other call
\* touching the queues since it enqueued its pair, issues one write carrying
\* everything queued for the destination: the pairs left by sends that
\* failed, and its own pair last.
C3_SendAfterFailedConnect ==
    \A t \in Threads :
        LET l == th[t] IN
        /\ pc[t] = "sp_thrown" =>
              /\ l.p \in thrown
              /\ Len(l.log) = HPX_MAX_NETWORK_RETRIES * l.n
              /\ \A k \in 1..Len(l.log) : ~l.log[k].ok
        /\ (pc[t] = "sp_done" /\ l.created /\ ~l.intf) =>
              /\ l.q0[l.prefix].first[Len(l.q0[l.prefix].first)] = Parcel(l.p, l.prefix)
              /\ \E w \in 1..Len(written) :
                    /\ written[w].conn = l.conn
                    /\ written[w].parcels = l.q0[l.prefix].first
                    /\ written[w].handlers = l.q0[l.prefix].second

\* a send that connected has written the parcel a failed send left queued
C3_Witness ==
    \E t \in Threads :
        /\ pc[t] = "sp_done" /\ th[t].created /\ ~th[t].intf
        /\ th[t].p \notin thrown
        /\ \E k \in thrown, w \in 1..Len(written) :
              /\ written[w].conn = th[t].conn
              /\ written[w].parcels = <<Parcel(k, th[t].prefix), Parcel(th[t].p, th[t].prefix)>>

\* C6: when send_parcel has raised network_error it has drained nothing,
\* issued no write, its connection is closed and is not in the cache; and
\* unless another call touched the queues meanwhile, every pending queue is
\* what it was when the call had enqueued its pair (the pairs queued before,
\* in order, then its own), and none of those handlers has been invoked.
C6_FailedConnectLeavesQueue ==
    \A t \in Threads :
        pc[t] = "sp_thrown" =>
            LET l == th[t] IN
            /\ l.parcels = <<>> /\ l.handlers = <<>>
            /\ conns[l.conn].st = "failed"
            /\ CacheCount(l.conn) = 0
            /\ \A w \in 1..Len(written) : written[w].conn # l.conn
            /\ ~l.intf =>
                  /\ pending_parcels_ = l.q0
                  /\ l.q0[l.prefix].first[Len(l.q0[l.prefix].first)] = Parcel(l.p, l.prefix)
                  /\ l.q0[l.prefix].second[Len(l.q0[l.prefix].second)] = l.p
                  /\ \A k \in 1..Len(invoked) :
                        invoked[k].h \notin Range(l.q0[l.prefix].second)

\* a send fails while an earlier pair is queued for its destination
C6_Witness ==
    \E t \in Threads :
        /\ pc[t] = "sp_thrown" /\ ~th[t].intf
        /\ Len(pending_parcels_[th[t].prefix].first) = 2
        /\ pending_parcels_[th[t].prefix].second[2] = th[t].p

\* C9: run tries every local endpoint, and raises network_error exactly when
\* every endpoint it tried failed; otherwise it goes on to run the pool.
C9_RunFailsIffAllFail ==
    last.op = "run" =>
        /\ Len(last.failed) = last.endpoints
        /\ last.result = "network_error" <=>
              \A k \in 1..Len(last.failed) : last.failed[k]
        /\ last.result # "network_error" =>
              last.result = "pool.run" /\ io_service_pool_ = "running"

\* run with two endpoints, the first of which failed: no error is raised
C9_Witness ==
    /\ last.op = "run"
    /\ last.failed = <<TRUE, FALSE>>
    /\ last.result = "pool.run"
    /\ acceptor_ = "listening" /\ accepts = 1

\* C10: stop(true) stops the pool, joins it, clears the connection cache and
\* releases the acceptor, in this order, and leaves no idle connection and no
\* acceptor; stop(false) only stops the pool.
C10_Stop ==
    [][(last' # last /\ last'.op = "stop") =>
          IF last'.blocking
          THEN /\ last'.calls \in
                    {<<"pool.stop", "pool.join", "cache.clear", "pool.clear">>,
                     <<"pool.stop", "pool.join", "cache.clear", "delete acceptor",
                       "pool.clear">>}
               /\ "delete acceptor" \in Range(last'.calls) <=> acceptor_ # "NULL"
               /\ connection_cache_' = <<>>
               /\ \A c \in ConnIds :
                     conns'[c] = IF CacheCount(c) > 0
                                 THEN [conns[c] EXCEPT !.st = "closed"] ELSE conns[c]
               /\ acceptor_' = "NULL" /\ accepts' = 0
               /\ io_service_pool_' = "cleared"
          ELSE /\ last'.calls = <<"pool.stop">>
               /\ io_service_pool_' = "stopped"
               /\ UNCHANGED <<connection_cache_, conns, acceptor_, accepts>>
      ]_vars

\* stop(true) has closed the idle connection of the cache and released the
\* acceptor that was listening
C10_Witness ==
    /\ last.op = "stop" /\ last.blocking
    /\ "delete acceptor" \in Range(last.calls)
    /\ nsent = 1
    /\ \E c \in ConnIds : conns[c].st = "closed"
    /\ connection_cache_ = <<>> /\ acceptor_ = "NULL"

\* C11: the marker a resumer observes once a work item has finished is the
\* marker of before the iteration installed its self, whether the work item
\* returned or threw; while the work item runs the marker is the new self,
\* whose saved predecessor is the old marker, so that installations nest: the
\* predecessor of a nested coroutine's self is the self of the coroutine that
\* resumed it, and outside every coroutine the marker is the thread's own.
C11_MarkerRestored ==
    /\ \A k \in 1..Len(delivered) : delivered[k].marker = delivered[k].before
    /\ \A c \in Coros :
          /\ cpc[c] = "fun" =>
                /\ cl[c].self_next = cl[c].old_self
                /\ Running = c => current_self = c
          /\ cpc[c] \in {"bind", "reset", "do_return"} =>
                current_self = cl[c].old_self
    /\ \A k \in 1..Len(ctl) :
          cpc[ctl[k]] = "fun" =>
              cl[ctl[k]].self_next = IF k = 1 THEN 0 ELSE ctl[k - 1]
    /\ ctl = <<>> => current_self = 0

\* a work item that threw inside a nested coroutine has been delivered
C11_Witness ==
    \E k \in 1..Len(delivered) :
        /\ delivered[k].item.throws
        /\ delivered[k].before # 0
        /\ delivered[k].marker = delivered[k].before
        /\ current_self = delivered[k].before

\* C12: an exception of the work item never leaves operator(): do_return
\* delivers it as the payload, with the status ctx_exited_abnormally; for a
\* work item that returned, the payload is empty and the result bound for the
\* resumer is the work item's return value, of state terminated.
C12_ExceptionCaptured ==
    /\ \A c \in Coros : cpc[c] # "escaped"
    /\ \A k \in 1..Len(delivered) :
          LET d == delivered[k] IN
          IF d.item.throws
          THEN /\ d.status = "ctx_exited_abnormally"
               /\ d.tinfo = d.item.id /\ d.tinfo # 0
          ELSE /\ d.tinfo = 0
               /\ d.result = <<"terminated", d.item.id>>

\* one context delivered a captured exception and, rebound, a return value
C12_Witness ==
    \E j, k \in 1..Len(delivered) :
        /\ j < k
        /\ delivered[j].c = delivered[k].c
        /\ delivered[j].item.throws /\ delivered[j].tinfo # 0
        /\ ~delivered[k].item.throws /\ delivered[k].tinfo = 0

Now == World(fb, heap)

\* container f of b is in a state the class describes: object is nullptr
\* exactly when vptr is the table of the empty state, and a non-null object
\* points to a live payload of the vptr's type
Sound(b, h, f) ==
    /\ b[f].object = nullptr <=> b[f].vptr = EmptyVtable
    /\ b[f].object # nullptr => Cell(World(b, h), b[f].object).type = b[f].vptr

\* C14: every live container has object = nullptr exactly when its vptr is
\* the table of the empty state, and its vptr is one of the tables, never
\* null; so invoking an empty container reaches the erroring entry of the
\* empty table and no payload's entry is ever called with a null object.
C14_EmptyIffSentinel ==
    /\ \A f \in Fns :
          fb[f].alive =>
              /\ fb[f].vptr \in Types \cup {EmptyVtable}
              /\ fb[f].object = nullptr <=> fb[f].vptr = EmptyVtable
    /\ flast.op = "invoke" =>
          /\ flast.ret # "null_object"
          /\ flast.pre[flast.f].object = nullptr => flast.ret = "EmptyCallable"

\* C15: assign of a callable whose table is the stored one leaves the object
\* pointer where it was: one destructor call, no allocation, no
\* deallocation, and the new payload in the old place; the same for copy
\* assignment from another container of the same type; copy assignment from
\* itself changes nothing.
C15_AssignInPlace ==
    /\ (/\ flast.op = "assign"
        /\ flast.x.k = "callable"
        /\ flast.err = "none"
        /\ Sound(flast.pre, flast.preheap, flast.f)
        /\ flast.pre[flast.f].vptr = flast.x.type) =>
          /\ fb[flast.f].object = flast.pre[flast.f].object
          /\ flast.d = 1 /\ flast.a = 0 /\ flast.fr = 0 /\ ~flast.ub
          /\ Cell(Now, fb[flast.f].object) = [type |-> flast.x.type, val |-> flast.x.val]
    /\ (/\ flast.op = "copy_assign"
        /\ flast.f # flast.g
        /\ flast.err = "none"
        /\ Sound(flast.pre, flast.preheap, flast.f)
        /\ Sound(flast.pre, flast.preheap, flast.g)
        /\ flast.pre[flast.f].vptr = flast.pre[flast.g].vptr
        /\ flast.pre[flast.f].object # nullptr) =>
          /\ fb[flast.f].object = flast.pre[flast.f].object
          /\ flast.d = 1 /\ flast.a = 0 /\ flast.fr = 0 /\ ~flast.ub
          /\ Cell(Now, fb[flast.f].object) =
                Cell(World(flast.pre, flast.preheap), flast.pre[flast.g].object)
    /\ (flast.op = "copy_assign" /\ flast.f = flast.g) =>
          /\ fb = flast.pre /\ heap = flast.preheap
          /\ flast.d = 0 /\ flast.a = 0 /\ flast.fr = 0

\* a heap payload has been replaced by another value of its type
C15_Witness ==
    /\ flast.op = "assign"
    /\ flast.x.k = "callable" /\ flast.x.type = "T2"
    /\ flast.err = "none"
    /\ Sound(flast.pre, flast.preheap, flast.f)
    /\ flast.pre[flast.f].vptr = "T2"
    /\ Cell(World(flast.pre, flast.preheap), flast.pre[flast.f].object).val # flast.x.val
    /\ fb[flast.f].object = flast.pre[flast.f].object

\* C16: loading the archive a save wrote gives a container as empty as the
\* saved one was; when it was not empty the container's table is the one
\* registered under the saved name, which is the saved container's, and
\* target<T>() is a payload equal to the saved one; the payload the
\* destination held before has been destroyed and its heap cell released.
C16_RoundTrip ==
    (/\ flast.op = "load" /\ flast.rec = ar.rec
     /\ Sound(flast.pre, flast.preheap, flast.f)) =>
        /\ empty(Now, flast.f) = ar.from.empty
        /\ ~ar.from.empty =>
              /\ fb[flast.f].vptr = Lookup(ar.rec[2])
              /\ fb[flast.f].vptr = ar.from.vptr
              /\ target(Now, flast.f, ar.from.vptr) = ar.from.payload
        /\ flast.d = IF flast.pre[flast.f].object # nullptr THEN 1 ELSE 0
        /\ flast.fr = IF flast.pre[flast.f].object.at = "heap" THEN 1 ELSE 0
        /\ ~flast.ub /\ flast.err = "none"

\* a saved heap payload has been loaded into a container that held an
\* inline payload
C16_Witness ==
    /\ flast.op = "load" /\ flast.rec = ar.rec
    /\ Sound(flast.pre, flast.preheap, flast.f)
    /\ ~ar.from.empty /\ ar.from.vptr = "T2"
    /\ flast.pre[flast.f].vptr = "T1"
    /\ target(Now, flast.f, "T2") = ar.from.payload

\* C17: load of a non-empty record whose name is in no registry fails with
\* UnknownCallableType and leaves the container empty, the payload it held
\* destroyed.
C17_UnknownType ==
    (/\ flast.op = "load"
     /\ ~flast.rec[1]
     /\ Lookup(flast.rec[2]) = "none"
     /\ Sound(flast.pre, flast.preheap, flast.f)) =>
        /\ flast.err = "UnknownCallableType"
        /\ fb[flast.f].object = nullptr
        /\ fb[flast.f].vptr = EmptyVtable
        /\ flast.d = IF flast.pre[flast.f].object # nullptr THEN 1 ELSE 0

\* a container holding a payload has met an unregistered name
C17_Witness ==
    /\ flast.op = "load"
    /\ ~flast.rec[1] /\ flast.rec[2] = "N3"
    /\ Sound(flast.pre, flast.preheap, flast.f)
    /\ flast.pre[flast.f].object # nullptr
    /\ flast.err = "UnknownCallableType"

\* C18: reset leaves the container empty and destroys the payload once if
\* there was one; on an empty container it destroys nothing and changes
\* nothing; assign of nullptr, of a null function or member pointer, or of
\* an empty container does what reset does.
C18_ResetIdempotent ==
    /\ (flast.op = "reset" /\ Sound(flast.pre, flast.preheap, flast.f)) =>
          /\ fb[flast.f].object = nullptr /\ fb[flast.f].vptr = EmptyVtable
          /\ flast.d = IF flast.pre[flast.f].object # nullptr THEN 1 ELSE 0
          /\ ~flast.ub
          /\ flast.pre[flast.f].object = nullptr =>
                fb = flast.pre /\ heap = flast.preheap
    /\ (flast.op = "assign" /\ flast.x.k # "callable") =>
          LET r == reset(World(flast.pre, flast.preheap), flast.f) IN
          /\ fb = r.fb /\ heap = r.heap
          /\ flast.d = r.d /\ flast.a = r.a /\ flast.fr = r.fr

\* reset of a container that was emptied before
C18_Witness ==
    /\ flast.op = "reset"
    /\ Sound(flast.pre, flast.preheap, flast.f)
    /\ flast.pre[flast.f].object = nullptr
    /\ flast.pre[flast.f].serializable_vptr # "nullptr"
    /\ fb = flast.pre

\* the number of times parcel id k was pushed on a pending queue
Pushes(k) == Cardinality({j \in 1..Len(enqueued) : enqueued[j] = k})

\* C19 (as the spec states it): once a send_parcel call has attempted its
\* connection-cache lookup, its pair is on the destination's pending queue
\* already.
C19_EnqueueBeforeLookup ==
    \A t \in Threads :
        (th[t].op = "send" /\ pc[t] # "idle") => Pushes(th[t].p) = 1

\* C19 (amended): a send_parcel call attempts its connection-cache lookup
\* first, its pair not yet enqueued; it then enqueues the pair, once, before
\* the full() check and the connect, whatever the lookup returned; so every
\* call that has returned or raised has enqueued its pair.
C19_LookupThenEnqueue ==
    /\ \A t \in Threads :
          th[t].op = "send" =>
              /\ pc[t] = "sp_lock" => Pushes(th[t].p) = 0
              /\ pc[t] \notin {"idle", "sp_lock"} => Pushes(th[t].p) = 1
    /\ \A k \in 1..nsent :
          (\A t \in Threads : th[t].p # k) => Pushes(k) = 1
    /\ \A k \in thrown : Pushes(k) = 1

\* a call holds a connection its lookup returned and has not enqueued yet
C19_Witness ==
    \E t \in Threads :
        /\ pc[t] = "sp_lock"
        /\ th[t].conn # 0
        /\ Pushes(th[t].p) = 0

\* C20: a send_parcel call that got no connection from the cache and finds
\* the cache full for its destination returns: the step changes nothing but
\* the call's position; the call has created no connection, made no connect
\* attempt and drained nothing, and no handler is invoked by it.
C20_FullReturns ==
    [][\A t \in Threads :
          (/\ pc[t] = "sp_full"
           /\ pc'[t] # "sp_full"
           /\ th[t].conn = 0
           /\ cache_full(th[t].prefix)) =>
              /\ pc'[t] = "sp_done"
              /\ th'[t] = th[t]
              /\ ~th[t].created /\ th[t].log = <<>>
              /\ th[t].parcels = <<>> /\ th[t].handlers = <<>>
              /\ Pushes(th[t].p) = 1
              /\ UNCHANGED <<pending_parcels_, connection_cache_, conns, written,
                             invoked, scheduled, thrown, mtx_>>
      ]_vars

\* a call has returned on a full cache, its pair the last of the queue
C20_Witness ==
    \E t \in Threads :
        /\ pc[t] = "sp_done"
        /\ th[t].conn = 0 /\ ~th[t].created
        /\ cache_full(th[t].prefix)
        /\ ~th[t].intf
        /\ pending_parcels_ = th[t].q0
        /\ pending_parcels_[th[t].prefix].second
              [Len(pending_parcels_[th[t].prefix].second)] = th[t].p

\* thread t leaves the statement after its swap: lines 283-300 of
\* send_parcel, lines 333-348 of send_pending_parcels
AfterDrain(t) ==
    /\ pc[t] \in {"sp_write", "dp_write"}
    /\ pc'[t] # pc[t]

\* C21: a call that holds a connection and has drained nothing issues no
\* write, invokes no handler and hands the connection to
\* connection_cache_.add for its destination, where it is idle when the cache
\* keeps it; a call that has drained something issues one async_write on
\* its connection with all the parcels and all the handlers it drained, and
\* leaves the cache alone.
C21_WriteOrGiveBack ==
    [][\A t \in Threads :
          AfterDrain(t) =>
             LET l == th[t] IN
             /\ l.conn # 0
             /\ invoked' = invoked
             /\ (l.parcels = <<>> \/ l.handlers = <<>>) =>
                   /\ written' = written
                   /\ connection_cache_' = cache_after_add(l.prefix, l.conn)
                   /\ conns' = conns_after_add(l.prefix, l.conn)
                   /\ cache_add_keeps(l.prefix, l.conn) =>
                         /\ l.conn \in Range(IdleOf(connection_cache_', l.prefix))
                         /\ conns'[l.conn].st = "connected"
             /\ (l.parcels # <<>> /\ l.handlers # <<>>) =>
                   /\ Len(written') = Len(written) + 1
                   /\ SubSeq(written', 1, Len(written)) = written
                   /\ written'[Len(written')].conn = l.conn
                   /\ written'[Len(written')].dest = l.prefix
                   /\ written'[Len(written')].parcels = l.parcels
                   /\ written'[Len(written')].handlers = l.handlers
                   /\ ~written'[Len(written')].done
                   /\ UNCHANGED <<connection_cache_, conns>>
      ]_vars

\* a send_parcel call found the queue drained by another and its connection
\* is idle in the cache
C21_Witness ==
    \E t \in Threads :
        /\ pc[t] = "sp_done"
        /\ th[t].op = "send"
        /\ th[t].conn # 0
        /\ th[t].parcels = <<>> /\ th[t].handlers = <<>>
        /\ th[t].conn \in Range(IdleOf(connection_cache_, th[t].prefix))
        /\ \E w \in 1..Len(written) : th[t].p \in Range(written[w].handlers)

\* how often x occurs in the sequence q
Occurrences(q, x) == Cardinality({j \in 1..Len(q) : q[j] = x})

\* the calls that hold drained vectors they have not yet written
Draining == {t \in Threads : pc[t] \in {"sp_swap2", "sp_write", "dp_swap2", "dp_write"}}

\* in how many places of the drained vectors and the batched writes parcel
\* k is
TimesDrained(k) ==
    Cardinality({x \in Draining \X (1..MaxParcels) :
                    /\ x[2] <= Len(th[x[1]].parcels)
                    /\ th[x[1]].parcels[x[2]].id = k})
    + Cardinality({x \in (1..Len(written)) \X (1..MaxParcels) :
                    /\ x[2] <= Len(written[x[1]].parcels)
                    /\ written[x[1]].parcels[x[2]].id = k})

\* in how many places of the vectors of handlers the handler of parcel k is
TimesHandlerDrained(k) ==
    Cardinality({x \in {t \in Threads : pc[t] \in {"sp_write", "dp_write"}}
                          \X (1..MaxParcels) :
                    /\ x[2] <= Len(th[x[1]].handlers)
                    /\ th[x[1]].handlers[x[2]] = k})
    + Cardinality({x \in (1..Len(written)) \X (1..MaxParcels) :
                    /\ x[2] <= Len(written[x[1]].handlers)
                    /\ written[x[1]].handlers[x[2]] = k})

\* q lists parcels in the order they were pushed
InPushOrder(q) == \A j, k \in 1..Len(q) : j < k => PushPos(q[j]) < PushPos(q[k])

\* C22: every pushed pair is taken by at most one drain: a parcel is in at
\* most one drained vector or batched write, and once at most; it is either
\* still queued or drained, never both; no handler is invoked twice; a
\* drained vector and a batch list their pairs in push order.
C22_DrainedOnce ==
    /\ \A k \in 1..nsent :
          /\ TimesDrained(k) <= 1
          /\ TimesHandlerDrained(k) <= 1
          /\ \A d \in Prefixes :
                TimesDrained(k) + Occurrences(pending_parcels_[d].first, Parcel(k, d))
                   <= 1
          /\ Cardinality({j \in 1..Len(invoked) : invoked[j].h = k}) <= 1
    /\ \A w \in 1..Len(written) :
          /\ InPushOrder(written[w].handlers)
          /\ written[w].parcels =
                [j \in 1..Len(written[w].handlers) |->
                    Parcel(written[w].handlers[j], written[w].dest)]
    /\ \A t \in Draining :
          InPushOrder([j \in 1..Len(th[t].parcels) |-> th[t].parcels[j].id])

\* two calls for one destination were at their swap together: one drained
\* both pairs, the other nothing
C22_Witness ==
    \E t, u \in Threads :
        /\ t # u
        /\ pc[t] \in {"sp_write", "dp_write"} /\ pc[u] \in {"sp_write", "dp_write"}
        /\ th[t].prefix = th[u].prefix
        /\ Len(th[t].parcels) = 2 /\ Len(th[t].handlers) = 2
        /\ th[u].parcels = <<>> /\ th[u].handlers = <<>>

\* the writes to destination d that have completed
Completed(d) ==
    Cardinality({w \in 1..Len(written) : written[w].dest = d /\ written[w].done})

InCriticalSection(t) == pc[t] \in {"sp_push2", "sp_swap2", "dp_swap2"}

\* C24: the thread that holds mtx_ is inside one of the three critical
\* sections and nobody else is; a step that takes mtx_ and a step of its
\* holder change nothing but mtx_, the holder's position and locals and the
\* two pending sequences of the holder's destination: no connection is
\* created, connected or closed, no write issued, no handler invoked, no
\* thread registered, no accept armed, the cache not touched; and the holder
\* leaves the section with its next step.
C24_NoIOUnderLock ==
    [][/\ \A t \in Threads : InCriticalSection(t) <=> mtx_ = t
       /\ \A t \in Threads :
             ((mtx_ = t /\ pc'[t] # pc[t]) \/ (mtx_ = 0 /\ mtx_' = t)) =>
                /\ UNCHANGED <<connection_cache_, conns, written, invoked,
                               scheduled, thrown, lifecycle>>
                /\ \A d \in Prefixes \ {th'[t].prefix} :
                      pending_parcels_'[d] = pending_parcels_[d]
                /\ \A u \in Threads \ {t} : pc'[u] = pc[u]
                /\ mtx_ = t => mtx_' = 0 /\ ~InCriticalSection(t)'
      ]_vars

\* a drain holds mtx_ with the parcels swapped out while a send_parcel call
\* is on its way on another worker
C24_Witness ==
    \E t, u \in Threads :
        /\ mtx_ = t
        /\ pc[t] = "dp_swap2"
        /\ th[t].parcels # <<>>
        /\ t # u /\ th[u].op = "send" /\ pc[u] \notin {"idle", "sp_done", "sp_thrown"}

\* ------------------------------------------------------------------- C25
\* an accept completed in this step: a connection left the acceptor
AcceptCompleted(c) ==
    incoming[c].st = "none" /\ incoming'[c].st # "none"

\* C25: at most one async_accept is outstanding; an accept that completes
\* without error arms one new async_accept before the one async_read on the
\* accepted connection starts; and while the transport runs an accept is
\* outstanding after every accept completion.
C25_AcceptStaysOutstanding ==
    [][/\ accepts <= 1 /\ accepts' <= 1
       /\ \A c \in Incoming :
            /\ (AcceptCompleted(c) /\ incoming'[c].e = "success")
                   => incoming'[c].st = "accepted" /\ accepts' = 1
            /\ (incoming[c].st # "reading" /\ incoming'[c].st = "reading")
                   => incoming[c].st = "accepted"
            /\ (AcceptCompleted(c) /\ io_service_pool_' = "running")
                   => accepts' = 1]_vars


\* ------------------------------------------------------------------- C26
\* the read on c completed in this step
ReadCompleted(c) ==
    incoming[c].st = "reading" /\ incoming'[c].st = "read"

\* what handle_read_completion takes for a failure
IsReadError(e) ==
    e \notin {"success", "operation_aborted", "eof"}

\* C26: a read completion with an error other than operation_aborted and eof
\* is logged, records no data point and touches nothing but its connection:
\* acceptor, outstanding accept, the other connections, the pending queues and
\* the connection cache stay as they are.  A read completion without error
\* records exactly one data point for its connection, and operation_aborted
\* and eof are not logged as errors.
C26_ReadErrorIsLocal ==
    [][\A c \in Incoming : ReadCompleted(c) =>
          /\ IsReadError(incoming'[c].e) =>
                /\ logged' = Append(logged, [c |-> c, e |-> incoming'[c].e])
                /\ parcels_received_' = parcels_received_
                /\ lifecycle' = lifecycle
                /\ outbound' = outbound
                /\ \A b \in Incoming \ {c} : incoming'[b] = incoming[b]
          /\ incoming'[c].e = "success" =>
                /\ parcels_received_' = Append(parcels_received_, c)
                /\ Occurrences(parcels_received_', c) = 1
          /\ ~IsReadError(incoming'[c].e) => logged' = logged]_vars

\* one read failed and was logged, another connection's read went through and
\* has its data point, and the accept is still outstanding
C26_Witness ==
    /\ accepts = 1
    /\ \E c, b \in Incoming :
          /\ incoming[c].st = "read" /\ IsReadError(incoming[c].e)
          /\ logged = <<[c |-> c, e |-> incoming[c].e]>>
          /\ incoming[b].st = "read" /\ incoming[b].e = "success"
          /\ parcels_received_ = <<b>>


\* ------------------------------------------------------------------- C27
\* C27: in every iteration of the run loop, over any rebinds of a context,
\* do_return gets ctx_exited_abnormally exactly when the work item of that
\* iteration threw and a non-empty exception exactly when it threw, so a
\* normal completion after a throwing run is a normal return; and the work
\* item is reset before the result is delivered.
C27_StatusOfThisIteration ==
    /\ \A k \in 1..Len(delivered) :
          /\ (delivered[k].status = "ctx_exited_abnormally") = delivered[k].item.throws
          /\ (delivered[k].tinfo # 0) = delivered[k].item.throws
    /\ \A c \in Coros : cpc[c] = "do_return" => m_fun[c] = NoFun


\* ------------------------------------------------------------------- C28
\* the payload container f of b holds, Free when it holds none
PayloadOf(b, h, f) == Cell(World(b, h), b[f].object)

\* every live container of b is sound, an inline payload is in the buffer of
\* the container that points to it, and no two containers point to the same
\* payload
WellOwned(b, h) ==
    /\ \A f \in Fns : b[f].alive =>
          /\ Sound(b, h, f)
          /\ b[f].object.at = "storage" => b[f].object = Storage(f)
    /\ \A f, g \in Fns :
          (f # g /\ b[f].alive /\ b[g].alive /\ b[f].object # nullptr)
              => b[f].object # b[g].object

\* C28: swap, move construction and move assignment keep every inline
\* payload's object pointing at the own buffer and every payload with one
\* owner; swap(a, b) exchanges payloads and emptiness, and swap with itself
\* changes nothing; a move leaves the source empty and the destination with
\* the source's former payload, and move assignment destroys the
\* destination's former payload exactly once.
C28_SwapAndMove ==
    (/\ flast.op \in {"swap", "move_assign", "move_construct"}
     /\ WellOwned(flast.pre, flast.preheap)) =>
        LET f == flast.f
            g == flast.g
            before(x) == PayloadOf(flast.pre, flast.preheap, x)
            after(x) == PayloadOf(fb, heap, x)
        IN
        /\ WellOwned(fb, heap)
        /\ ~flast.ub /\ flast.err = "none"
        /\ flast.a = 0
        /\ (flast.op = "swap" /\ f # g) =>
              /\ after(f) = before(g) /\ after(g) = before(f)
              /\ fb[f].vptr = flast.pre[g].vptr /\ fb[g].vptr = flast.pre[f].vptr
              /\ empty(Now, f) = empty(World(flast.pre, flast.preheap), g)
              /\ empty(Now, g) = empty(World(flast.pre, flast.preheap), f)
              /\ flast.d = 0 /\ flast.fr = 0
        /\ (flast.op \in {"swap", "move_assign"} /\ f = g) =>
              /\ fb = flast.pre /\ heap = flast.preheap
              /\ flast.d = 0 /\ flast.fr = 0
        /\ (flast.op = "move_construct" \/ (flast.op = "move_assign" /\ f # g)) =>
              /\ fb[g].vptr = EmptyVtable /\ fb[g].object = nullptr
              /\ after(f) = before(g)
              /\ fb[f].vptr = flast.pre[g].vptr
        /\ flast.op = "move_construct" => flast.d = 0 /\ flast.fr = 0
        /\ (flast.op = "move_assign" /\ f # g) =>
              /\ flast.d = (IF flast.pre[f].object = nullptr THEN 0 ELSE 1)
              /\ flast.fr = (IF flast.pre[f].object.at = "heap" THEN 1 ELSE 0)
              /\ flast.pre[f].object.at = "heap" =>
                    /\ Cell(Now, flast.pre[f].object) = Free
                    /\ \A x \in Fns : fb[x].alive => fb[x].object # flast.pre[f].object

\* an inline payload and a heap payload have changed places
C28_Witness ==
    /\ flast.op = "swap"
    /\ flast.f # flast.g
    /\ WellOwned(flast.pre, flast.preheap)
    /\ flast.pre[flast.f].object = Storage(flast.f)
    /\ flast.pre[flast.g].object.at = "heap"
    /\ fb[flast.g].object = Storage(flast.g)
    /\ fb[flast.f].object = flast.pre[flast.g].object
    /\ PayloadOf(fb, heap, flast.g).type = "T1"

====
